---- MODULE Spec2Model ----
(***************************************************************************)
(* Travel-planner backend: the conversation phase controller of            *)
(* langgraph_agent.py (process_user_message and its nodes), the itinerary  *)
(* helpers it calls, and the request handler of server.py.                 *)
(*                                                                         *)
(* Text.  The program matches Chinese keywords as substrings of strings.   *)
(* A string is modelled as a sequence of tokens; a token records the       *)
(* keywords that occur in its text ("has"), the value of a digit run       *)
(* ("num", -1 when the token is no digit run) and its number of            *)
(* characters ("len").  Keywords are written in pinyin: "meishi" is the    *)
(* source's food keyword, "tian" the day unit, "manyi" "satisfied", ...    *)
(***************************************************************************)
EXTENDS Integers, Sequences, FiniteSets, TLC

\* ------------------------------------------------------------------ bounds

\* Largest day count an utterance of the modelled user names.
MaxDays == 3
\* current_day_index grows with every approval sent in phase completed; turns
\* that would take it past this value are not explored.
MaxDayIndex == 4

\* ------------------------------------------------------------------- text

T(txt, has, len) == [txt |-> txt, has |-> has, num |-> -1, len |-> len]
Num(n) == [txt |-> "digits", has |-> {}, num |-> n, len |-> 1]

\* `kw in message`
Contains(message, kw) == \E i \in 1..Len(message) : kw \in message[i].has

RECURSIVE SumLen(_)
SumLen(message) ==
  IF message = <<>> THEN 0 ELSE Head(message).len + SumLen(Tail(message))

\* len(message)
StrLen(message) == SumLen(message)

\* message.strip().isdigit(): the text is one run of digits
IsDigit(message) == Len(message) = 1 /\ message[1].num >= 0

\* feature lists of the source, in source order
destinations ==
  <<"HongKong", "Shanghai", "Beijing", "Shenzhen", "Hangzhou", "Xian", "Guangzhou">>

interests_keywords ==
  [meishi   |-> {"meishi", "chi", "canting", "xiaochi"},
   gouwu    |-> {"gouwu", "guangjie", "goumai"},
   jingdian |-> {"jingdian", "jingguan", "youlan", "canguan"},
   wenhua   |-> {"wenhua", "bowuguan", "lishi"},
   huwai    |-> {"huwai", "pashan", "dengshan", "ziran"}]

InterestNames == DOMAIN interests_keywords

satisfaction_keywords ==
  {"manyi", "xiayitian", "xiayige", "jixu", "keyile", "meiwenti", "haode", "next", "ok"}

media_keywords == {"meitipingfen", "xiaohongshupingfen", "shejiaomeitipingjia"}

\* re.search(r'(\d+)\s*tian', message): positions where a digit run is followed
\* by the day unit
DaysMatches(message) ==
  {i \in 1..(Len(message) - 1) : message[i].num >= 0 /\ message[i + 1].txt = "tian"}

\* re.search(r'(\d+)\s*(?:ge)?(?:ren|wei)', message)
PeopleMatches(message) ==
  {i \in 1..(Len(message) - 1) :
     /\ message[i].num >= 0
     /\ \/ message[i + 1].txt \in {"ren", "wei"}
        \/ /\ i + 2 <= Len(message)
           /\ message[i + 1].txt = "ge"
           /\ message[i + 2].txt \in {"ren", "wei"}}

Min(S) == CHOOSE x \in S : \A y \in S : x <= y

\* ------------------------------------------------------- fact extraction

\* The first entry of the gazetteer that occurs in the message, 0 if none.
FirstDestination(message) ==
  LET hits == {k \in 1..Len(destinations) : Contains(message, destinations[k])}
  IN  IF hits = {} THEN 0 ELSE Min(hits)

extract_destination(state, message) ==
  IF FirstDestination(message) # 0
  THEN [state EXCEPT !.destination = destinations[FirstDestination(message)]]
  ELSE state

extract_days(state, message) ==
  IF DaysMatches(message) # {}
  THEN [state EXCEPT !.days = message[Min(DaysMatches(message))].num]
  ELSE IF IsDigit(message) /\ state.days = 0
       THEN [state EXCEPT !.days = message[1].num]
       ELSE state

\* extract_people adding the matched number to the count it finds
extract_people_adding(state, message) ==
  IF PeopleMatches(message) # {}
  THEN [state EXCEPT !.people_count = @ + message[Min(PeopleMatches(message))].num]
  ELSE state

extract_people(state, message) ==
  IF PeopleMatches(message) # {}
  THEN [state EXCEPT !.people_count = message[Min(PeopleMatches(message))].num]
  ELSE state

\* The interest list is kept without duplicates and its order is never read:
\* it is modelled as a set.
extract_interests(state, message) ==
  [state EXCEPT !.interests =
     @ \cup {it \in InterestNames :
               \E kw \in interests_keywords[it] : Contains(message, kw)}]

IsBareBudget(message) ==
  Len(message) = 1 /\ message[1].txt \in {"di", "zhong", "gao"}

extract_budget(state, message) ==
  IF Contains(message, "yusuan") \/ Contains(message, "feiyong") \/ IsBareBudget(message)
  THEN IF Contains(message, "di") THEN [state EXCEPT !.budget = "di"]
       ELSE IF Contains(message, "gao") THEN [state EXCEPT !.budget = "gao"]
       ELSE [state EXCEPT !.budget = "zhong"]
  ELSE state

extract_info_from_message(state, message) ==
  extract_budget(
    extract_interests(
      extract_people(
        extract_days(
          extract_destination(state, message), message), message), message), message)

\* should_generate_plan without its test of the interests
should_generate_plan_without_interests(state) ==
  state.destination # "" /\ state.days > 0

should_generate_plan(state) ==
  /\ state.destination # ""
  /\ state.days > 0
  /\ state.interests # {}

\* ------------------------------------------------------ itinerary helpers

\* A spot's category and title are texts: a name and the keywords that occur
\* in it.  A rating is a number with one decimal, in tenths (Rating(46) is
\* 4.6), a number with two decimals, in hundredths (RatingCents(251) is 2.51),
\* the JSON null (RatingNone) or a JSON string that is no number (RatingText).
Text(name, has) == [name |-> name, has |-> has]
Rating(tenths) == [kind |-> "num", v |-> tenths]
RatingCents(hundredths) == [kind |-> "cents", v |-> hundredths]
RatingNone == [kind |-> "none", v |-> 0]
RatingText == [kind |-> "text", v |-> 0]

AnyIn(keys, text) == \E k \in keys : k \in text.has

\* Hours of stay by category keyword; the first matching group decides.
_estimate_duration_hours(spot) ==
  LET category == spot.category IN
  IF AnyIn({"huwai", "jiaoyou", "ziran", "gongyuan", "shan"}, category) THEN 4
  ELSE IF AnyIn({"jingdian", "youlan", "guanguang"}, category) THEN 3
  ELSE IF AnyIn({"bowuguan", "meishuguan", "wenhua", "lishi"}, category) THEN 2
  ELSE IF AnyIn({"gouwu", "shangchang", "shangye"}, category) THEN 2
  ELSE IF AnyIn({"meishi", "canting", "xiaochi", "jie"}, category) THEN 1
  ELSE 2

\* ----------------------------------------------------- float arithmetic
\* The scores are Python floats: IEEE 754 doubles, every operation rounded to
\* the nearest double, ties to the even mantissa.  A natural number of any
\* size is the sequence of its digits in base 2^14, lowest first, without a
\* leading zero digit (zero is << >>).

RECURSIVE Pow2(_)
Pow2(k) == IF k = 0 THEN 1 ELSE 2 * Pow2(k - 1)

Base == Pow2(14)

RECURSIVE Big(_)
Big(n) == IF n = 0 THEN <<>> ELSE <<n % Base>> \o Big(n \div Base)

RECURSIVE Trim(_)
Trim(a) ==
  IF a = <<>> THEN <<>>
  ELSE IF a[Len(a)] = 0 THEN Trim(SubSeq(a, 1, Len(a) - 1)) ELSE a

Digit(a) == IF a = <<>> THEN 0 ELSE Head(a)
Rest(a) == IF a = <<>> THEN <<>> ELSE Tail(a)

RECURSIVE BigAddCarry(_, _, _)
BigAddCarry(a, b, carry) ==
  IF a = <<>> /\ b = <<>> THEN Big(carry)
  ELSE LET sum == Digit(a) + Digit(b) + carry
       IN  <<sum % Base>> \o BigAddCarry(Rest(a), Rest(b), sum \div Base)

BigAdd(a, b) == BigAddCarry(a, b, 0)

\* a - b for a >= b
RECURSIVE BigSubBorrow(_, _, _)
BigSubBorrow(a, b, borrow) ==
  IF a = <<>> THEN <<>>
  ELSE LET difference == Digit(a) - Digit(b) - borrow
       IN  <<IF difference < 0 THEN difference + Base ELSE difference>>
             \o BigSubBorrow(Rest(a), Rest(b), IF difference < 0 THEN 1 ELSE 0)

BigSub(a, b) == Trim(BigSubBorrow(a, b, 0))

\* a * k for 0 <= k < 2^16
RECURSIVE BigTimesCarry(_, _, _)
BigTimesCarry(a, k, carry) ==
  IF a = <<>> THEN Big(carry)
  ELSE LET product == Head(a) * k + carry
       IN  <<product % Base>> \o BigTimesCarry(Tail(a), k, product \div Base)

BigTimes(a, k) == Trim(BigTimesCarry(a, k, 0))

\* a * Base^n
ShiftDigits(a, n) == IF a = <<>> THEN <<>> ELSE [i \in 1..n |-> 0] \o a

RECURSIVE BigMul(_, _)
BigMul(a, b) ==
  IF b = <<>> THEN <<>>
  ELSE BigAdd(BigTimes(a, Head(b)), ShiftDigits(BigMul(a, Tail(b)), 1))

\* quotient and remainder of a by d, 0 < d < 2^16
RECURSIVE BigDivMod(_, _)
BigDivMod(a, d) ==
  IF a = <<>> THEN [q |-> <<>>, r |-> 0]
  ELSE LET high == BigDivMod(Tail(a), d)
           dividend == high.r * Base + Head(a)
       IN  [q |-> Trim(<<dividend \div d>> \o high.q), r |-> dividend % d]

\* -1, 0, 1 as a < b, a = b, a > b
RECURSIVE BigCmp(_, _)
BigCmp(a, b) ==
  IF Len(a) # Len(b) THEN (IF Len(a) < Len(b) THEN -1 ELSE 1)
  ELSE IF a = <<>> THEN 0
  ELSE IF a[Len(a)] # b[Len(b)] THEN (IF a[Len(a)] < b[Len(b)] THEN -1 ELSE 1)
  ELSE BigCmp(SubSeq(a, 1, Len(a) - 1), SubSeq(b, 1, Len(b) - 1))

\* a * 2^k
BigShiftLeft(a, k) == ShiftDigits(BigTimes(a, Pow2(k % 14)), k \div 14)

\* floor(a / 2^k)
BigShiftRight(a, k) ==
  IF k \div 14 >= Len(a) THEN <<>>
  ELSE BigDivMod(SubSeq(a, k \div 14 + 1, Len(a)), Pow2(k % 14)).q

RECURSIVE Bits(_)
Bits(n) == IF n = 0 THEN 0 ELSE 1 + Bits(n \div 2)

\* the number of binary digits of a
BitLen(a) == IF a = <<>> THEN 0 ELSE 14 * (Len(a) - 1) + Bits(a[Len(a)])

\* A double above zero is m * 2^e with 2^52 <= m < 2^53; zero has m = 0.
\* (The scoring stays far from the largest and the smallest doubles.)
Zero == [m |-> <<>>, e |-> 0]

\* m * 2^e with m of 53 or 54 binary digits, as a double
Normalized(m, e) ==
  IF BitLen(m) = 54 THEN [m |-> BigShiftRight(m, 1), e |-> e + 1] ELSE [m |-> m, e |-> e]

\* kept * 2^e rounded up or not: half compares what the shift dropped with
\* half a unit of the last kept digit
RoundKept(kept, e, half) ==
  Normalized(IF half = 1 \/ (half = 0 /\ Digit(kept) % 2 = 1)
             THEN BigAdd(kept, <<1>>) ELSE kept, e)

\* n with its lowest shift binary digits dropped (kept the rest), rounded
RoundDropped(n, e, shift, kept) ==
  RoundKept(kept, e + shift,
            BigCmp(BigSub(n, BigShiftLeft(kept, shift)), BigShiftLeft(<<1>>, shift - 1)))

\* n of len binary digits, rounded to 53
RoundBits(n, e, len) ==
  IF len = 0 THEN Zero
  ELSE IF len <= 53 THEN [m |-> BigShiftLeft(n, 53 - len), e |-> e - (53 - len)]
  ELSE RoundDropped(n, e, len - 53, BigShiftRight(n, len - 53))

\* The double nearest to n * 2^e, ties to the even mantissa
RoundToDouble(n, e) == RoundBits(n, e, BitLen(n))

\* the quotient with one binary digit more, set when the division left a rest
Sticky(scaled) == BigAdd(BigTimes(scaled.q, 2), IF scaled.r = 0 THEN <<>> ELSE <<1>>)

\* The decimal literal n / d (d a power of ten below 2^16; an int for d = 1)
\* as m * 2^e: the quotient to 58 binary digits or more and one digit more
\* that tells whether the division left anything, which rounds as n / d does
ExactLiteral(n, d) == [m |-> Sticky(BigDivMod(BigShiftLeft(Big(n), 70), d)), e |-> -71]

\* x * y before it is rounded
ExactMul(x, y) == [m |-> BigMul(x.m, y.m), e |-> x.e + y.e]

\* both mantissas at the lower of the two exponents
Aligned(x, y) ==
  LET e == IF x.m = <<>> THEN y.e ELSE IF y.m = <<>> THEN x.e
           ELSE IF x.e < y.e THEN x.e ELSE y.e
  IN  [e |-> e, x |-> IF x.m = <<>> THEN <<>> ELSE BigShiftLeft(x.m, x.e - e),
       y |-> IF y.m = <<>> THEN <<>> ELSE BigShiftLeft(y.m, y.e - e)]

SumOf(aligned) == [m |-> BigAdd(aligned.x, aligned.y), e |-> aligned.e]

\* x + y before it is rounded
ExactAdd(x, y) == SumOf(Aligned(x, y))

\* the larger of x and y
LargerOf(x, y, aligned) == IF BigCmp(aligned.x, aligned.y) >= 0 THEN x ELSE y

ExactMax(x, y) == LargerOf(x, y, Aligned(x, y))

\* x - y for x >= y
DifferenceOf(aligned) == [m |-> BigSub(aligned.x, aligned.y), e |-> aligned.e]

MaxWithDifference(x, aligned) ==
  IF BigCmp(aligned.x, aligned.y) <= 0 THEN x ELSE ExactMax(x, DifferenceOf(aligned))

\* max(x, y - z) for x above zero, before it is rounded (rounding keeps the
\* order, so the larger of x and y - z rounds to the larger of x and the
\* rounded y - z)
ExactMaxMinus(x, y, z) == MaxWithDifference(x, Aligned(y, z))

\* Float expressions: a decimal literal, x * y, x + y, max(x, y - z) and a
\* term whose value is kept in a table
Lit(n, d) == [op |-> "literal", n |-> n, d |-> d]
Mul(x, y) == [op |-> "*", x |-> x, y |-> y]
Add(x, y) == [op |-> "+", x |-> x, y |-> y]
MaxMinus(x, y, z) == [op |-> "max-", x |-> x, y |-> y, z |-> z]
Term(expr) == [op |-> "term", of |-> expr]

Round(exact) == RoundToDouble(exact.m, exact.e)

\* -1, 0, 1 as x < y, x = y, x > y
CmpValues(x, y) ==
  IF x.m = <<>> \/ y.m = <<>> THEN BigCmp(x.m, y.m)
  ELSE IF x.e # y.e THEN (IF x.e < y.e THEN -1 ELSE 1)
  ELSE BigCmp(x.m, y.m)

\* The comparison of two floats; the operands are evaluated once, whatever
\* expressions they are
DoubleCmp(x, y) == CHOOSE c \in {CmpValues(pair[1], pair[2]) : pair \in {<<x, y>>}} : TRUE

\* ---------------------------------------------------------- scoring

\* Longest list of spots handed to the scoring, the balancer and the timeline.
MaxSpots == 4

Budgets == {"di", "zhong", "gao"}

\* float(s.get("rating", 4.5) or 4.5): "text" makes float() raise ...
RatingRaises(spot) == spot.rating.kind = "text"

\* ... an absent rating, null and 0 read as 4.5
RatingValue(rating) ==
  IF rating.kind = "none" \/ rating.v = 0 THEN Lit(45, 10)
  ELSE IF rating.kind = "cents" THEN Lit(rating.v, 100)
  ELSE Lit(rating.v, 10)

\* interest_bonus: some interest occurs in the category or in the title
InterestBonus(spot, interests) ==
  IF \E it \in interests : it \in spot.category.has \/ it \in spot.title.has
  THEN 1 ELSE 0

\* max(0.3, 1.0 - idx * 0.05), idx 0-based
BasePopularity(idx) == MaxMinus(Lit(3, 10), Lit(1, 1), Mul(Lit(idx, 1), Lit(5, 100)))

BudgetFactor(budget) ==
  IF budget = "gao" THEN Lit(105, 100)
  ELSE IF budget = "di" THEN Lit(95, 100) ELSE Lit(1, 1)

\* The ratings of the model's spots
Ratings ==
  {Rating(tenths) : tenths \in 44..48} \cup {RatingNone, RatingCents(251), RatingCents(256)}

\* rating * 0.6, interest_bonus * 0.3, base_popularity * 0.1, budget_factor
RatingTerm(rating) == Mul(RatingValue(rating), Lit(6, 10))
BonusTerm(interest_bonus) == Mul(Lit(interest_bonus, 1), Lit(3, 10))
PopularityTerm(idx) == Mul(BasePopularity(idx), Lit(1, 10))

\* The value of a float expression as Python computes it: every operation on
\* the rounded values of its operands, its result rounded
RECURSIVE Float(_)

\* The terms of the score for every rating, bonus, position and budget of the
\* model, so that each is computed once
Terms ==
  [expr \in {RatingTerm(rating) : rating \in Ratings}
            \cup {BonusTerm(interest_bonus) : interest_bonus \in {0, 1}}
            \cup {PopularityTerm(idx) : idx \in 0..(MaxSpots + 11)}
            \cup {BudgetFactor(budget) : budget \in Budgets} |-> Float(expr)]

Exact(expr) ==
  IF expr.op = "literal" THEN ExactLiteral(expr.n, expr.d)
  ELSE IF expr.op = "*" THEN ExactMul(Float(expr.x), Float(expr.y))
  ELSE IF expr.op = "+" THEN ExactAdd(Float(expr.x), Float(expr.y))
  ELSE ExactMaxMinus(Float(expr.x), Float(expr.y), Float(expr.z))

Float(expr) == IF expr.op = "term" THEN Terms[expr.of] ELSE Round(Exact(expr))

\* (rating * 0.6 + interest_bonus * 0.3 + base_popularity * 0.1) * budget_factor
score(rating, interest_bonus, idx, budget) ==
  Float(Mul(Add(Add(Term(RatingTerm(rating)), Term(BonusTerm(interest_bonus))),
                Term(PopularityTerm(idx))),
            Term(BudgetFactor(budget))))

\* score for every rating, bonus, position and budget of the model
Scores ==
  [rating \in Ratings, interest_bonus \in {0, 1}, idx \in 0..(MaxSpots + 11),
   budget \in Budgets |-> score(rating, interest_bonus, idx, budget)]

Score(spot, idx, interests, budget) ==
  Scores[spot.rating, InterestBonus(spot, interests), idx, budget]

\* Insertion ahead of the entries with an equal score
RECURSIVE InsertBeforeEqual(_, _)
InsertBeforeEqual(sorted, x) ==
  IF sorted = <<>> THEN <<x>>
  ELSE IF DoubleCmp(Head(sorted)._score, x._score) = 1
       THEN <<Head(sorted)>> \o InsertBeforeEqual(Tail(sorted), x)
       ELSE <<x>> \o sorted

\* list.sort(key=_score, reverse=True): stable insertion of x into a list that
\* is sorted by descending score, after every entry with a score >= x's
RECURSIVE InsertByScore(_, _)
InsertByScore(sorted, x) ==
  IF sorted = <<>> THEN <<x>>
  ELSE IF DoubleCmp(Head(sorted)._score, x._score) >= 0
       THEN <<Head(sorted)>> \o InsertByScore(Tail(sorted), x)
       ELSE <<x>> \o sorted

RECURSIVE SortByScore(_)
SortByScore(scored) ==
  IF scored = <<>> THEN <<>>
  ELSE InsertByScore(SortByScore(SubSeq(scored, 1, Len(scored) - 1)), scored[Len(scored)])

_score_and_sort_spots(spots, interests, budget) ==
  SortByScore([i \in 1..Len(spots) |->
     [id |-> spots[i].id, title |-> spots[i].title, rating |-> spots[i].rating,
      category |-> spots[i].category,
      _score |-> Score(spots[i], i - 1, interests, budget)]])

\* max_interest_ratio = 0.6, in tenths
max_interest_ratio == 6

is_interest_spot(s, interests) ==
  \E it \in interests : it \in s.category.has \/ it \in s.title.has

\* int(total * max_interest_ratio), at least 1 when there is an interest spot
target_interest_max(total, interest_spots) ==
  LET t == (total * max_interest_ratio) \div 10
  IN  IF t = 0 /\ interest_spots # <<>> THEN 1 ELSE t

\* The while loop without its last branch: once the other spots are used up
\* and no interest spot may be taken, it stops
RECURSIVE InterleaveCapped(_, _, _, _, _, _)
InterleaveCapped(interest_spots, other_spots, i_idx, o_idx, target, result) ==
  IF ~(i_idx < Len(interest_spots) \/ o_idx < Len(other_spots)) THEN result
  ELSE LET used == Len(result)
           ratio_ok == IF used > 0 THEN 10 * i_idx <= max_interest_ratio * used ELSE TRUE
           take_interest == /\ i_idx < Len(interest_spots)
                            /\ i_idx < target
                            /\ ratio_ok
       IN  IF take_interest
           THEN InterleaveCapped(interest_spots, other_spots, i_idx + 1, o_idx, target,
                                 Append(result, interest_spots[i_idx + 1]))
           ELSE IF o_idx < Len(other_spots)
           THEN InterleaveCapped(interest_spots, other_spots, i_idx, o_idx + 1, target,
                                 Append(result, other_spots[o_idx + 1]))
           ELSE result

\* The while loop of _apply_interest_ratio: i_idx and o_idx count the spots taken
\* from each list (interest_used = i_idx throughout).
RECURSIVE Interleave(_, _, _, _, _, _)
Interleave(interest_spots, other_spots, i_idx, o_idx, target, result) ==
  IF ~(i_idx < Len(interest_spots) \/ o_idx < Len(other_spots)) THEN result
  ELSE LET used == Len(result)
           ratio_ok == IF used > 0 THEN 10 * i_idx <= max_interest_ratio * used ELSE TRUE
           take_interest == /\ i_idx < Len(interest_spots)
                            /\ i_idx < target
                            /\ ratio_ok
       IN  IF take_interest \/ ~(o_idx < Len(other_spots))
           THEN Interleave(interest_spots, other_spots, i_idx + 1, o_idx, target,
                           Append(result, interest_spots[i_idx + 1]))
           ELSE Interleave(interest_spots, other_spots, i_idx, o_idx + 1, target,
                           Append(result, other_spots[o_idx + 1]))

_apply_interest_ratio(sorted_spots, interests) ==
  IF sorted_spots = <<>> \/ interests = {} THEN sorted_spots
  ELSE LET interest_spots == SelectSeq(sorted_spots, LAMBDA s : is_interest_spot(s, interests))
           other_spots == SelectSeq(sorted_spots, LAMBDA s : ~is_interest_spot(s, interests))
       IN  Interleave(interest_spots, other_spots, 0, 0,
                      target_interest_max(Len(sorted_spots), interest_spots), <<>>)

\* The first index, whatever the hours
FirstIndex(indices, day_hours) == Min(indices)

\* min(indices, key=lambda i: day_hours[i]): the first index with the least
\* hours
FirstEmptiest(indices, day_hours) ==
  CHOOSE i \in indices :
    \A j \in indices : day_hours[i] < day_hours[j] \/ (day_hours[i] = day_hours[j] /\ i <= j)

\* The for loop leaving out a spot that takes the emptiest day past 9 hours
RECURSIVE PlaceWhatFits(_, _, _, _)
PlaceWhatFits(sorted_spots, k, day_buckets, day_hours) ==
  IF k > Len(sorted_spots) THEN day_buckets
  ELSE LET s == sorted_spots[k]
           dur == _estimate_duration_hours(s)
           idx == FirstEmptiest(DOMAIN day_hours, day_hours)
       IN  IF day_hours[idx] + dur > 9
           THEN PlaceWhatFits(sorted_spots, k + 1, day_buckets, day_hours)
           ELSE PlaceWhatFits(sorted_spots, k + 1,
                              [day_buckets EXCEPT ![idx] = Append(@, s)],
                              [day_hours EXCEPT ![idx] = @ + dur])

\* The for loop of _split_spots_by_day from spot k on.
RECURSIVE PlaceInBuckets(_, _, _, _)
PlaceInBuckets(sorted_spots, k, day_buckets, day_hours) ==
  IF k > Len(sorted_spots) THEN day_buckets
  ELSE LET s == sorted_spots[k]
           dur == _estimate_duration_hours(s)
           days == DOMAIN day_hours
           emptiest == FirstEmptiest(days, day_hours)
           candidates == {i \in days : day_hours[i] + dur <= 9}
           idx == IF /\ day_hours[emptiest] + dur > 9
                     /\ \E i \in days : day_hours[i] < 7
                     /\ candidates # {}
                  THEN FirstEmptiest(candidates, day_hours)
                  ELSE emptiest
       IN  PlaceInBuckets(sorted_spots, k + 1,
                          [day_buckets EXCEPT ![idx] = Append(@, s)],
                          [day_hours EXCEPT ![idx] = @ + dur])

\* The same loop, keeping for every spot what the loop saw and chose: the
\* hours of the days before the spot was placed, the spot's stay and the day
\* it went to.
RECURSIVE PlaceTrace(_, _, _, _)
PlaceTrace(sorted_spots, k, day_hours, trace) ==
  IF k > Len(sorted_spots) THEN trace
  ELSE LET dur == _estimate_duration_hours(sorted_spots[k])
           days == DOMAIN day_hours
           emptiest == FirstEmptiest(days, day_hours)
           candidates == {i \in days : day_hours[i] + dur <= 9}
           idx == IF /\ day_hours[emptiest] + dur > 9
                     /\ \E i \in days : day_hours[i] < 7
                     /\ candidates # {}
                  THEN FirstEmptiest(candidates, day_hours)
                  ELSE emptiest
       IN  PlaceTrace(sorted_spots, k + 1, [day_hours EXCEPT ![idx] = @ + dur],
                      Append(trace, [day_hours |-> day_hours, dur |-> dur, idx |-> idx,
                                     spot |-> sorted_spots[k]]))

_split_spots_by_day(sorted_spots, days) ==
  IF days <= 0 THEN <<>>
  ELSE PlaceInBuckets(sorted_spots, 1, [d \in 1..days |-> <<>>], [d \in 1..days |-> 0])

RECURSIVE SumDurations(_)
SumDurations(spots) ==
  IF spots = <<>> THEN 0
  ELSE _estimate_duration_hours(Head(spots)) + SumDurations(Tail(spots))

\* max(category_counter.items(), key=count)[0]: the category with the highest
\* count, the one met first in the list when several share it
MainCategory(spots_for_day) ==
  LET count(i) == Cardinality({j \in 1..Len(spots_for_day) :
                      spots_for_day[j].category.name = spots_for_day[i].category.name})
      best == {i \in 1..Len(spots_for_day) :
                 \A j \in 1..Len(spots_for_day) : count(j) <= count(i)}
  IN  spots_for_day[Min(best)].category

Theme(main_category, destination) ==
  IF AnyIn({"meishi", "canting", "xiaochi"}, main_category) THEN <<"food">>
  ELSE IF AnyIn({"huwai", "ziran", "gongyuan", "shan"}, main_category) THEN <<"outdoor">>
  ELSE IF AnyIn({"wenhua", "lishi", "bowuguan"}, main_category) THEN <<"culture">>
  ELSE IF AnyIn({"gouwu", "shangchang", "shangye"}, main_category) THEN <<"shopping">>
  ELSE <<destination, "classic">>

\* The summary string is formatted from total_hours, theme and highlights, which
\* the returned record holds; it is not modelled as a separate text.
_build_day_theme_summary(spots_for_day, destination) ==
  IF spots_for_day = <<>>
  THEN [total_hours |-> 6, theme |-> <<destination, "free">>, highlights |-> <<>>]
  ELSE [total_hours |-> SumDurations(spots_for_day),
        theme |-> Theme(MainCategory(spots_for_day), destination),
        highlights |-> [i \in 1..(IF Len(spots_for_day) < 2 THEN Len(spots_for_day) ELSE 2)
                          |-> spots_for_day[i].title.name]]

\* First key of icon_map, in its order, that occurs in the category.
pick_icon(category) ==
  LET icon_map == << <<"jingdian", "map">>, <<"guanguang", "map">>, <<"wenhua", "museum">>,
                     <<"bowuguan", "museum">>, <<"lishi", "museum">>, <<"huwai", "mountain">>,
                     <<"ziran", "mountain">>, <<"gongyuan", "tree">>, <<"meishi", "noodles">>,
                     <<"canting", "plate">>, <<"xiaochi", "dumpling">>, <<"gouwu", "bags">>,
                     <<"yejing", "bridge">>, <<"yule", "wheel">> >>
      hits == {k \in 1..Len(icon_map) : icon_map[k][1] \in category.has}
  IN  IF hits = {} THEN "pin" ELSE icon_map[Min(hits)][2]

SpotId(src, n) == [src |-> src, n |-> n]
NoSpot == SpotId("none", 0)

\* An activity: id (day number, kind, ordinal), icon, title (a pair: the city
\* it names or "", and the rest), time as minutes of the day, and the id of the
\* spot it came from (NoSpot for the fixed activities).  The description is a
\* template over category, rating and duration and is not modelled.
Activity(day_index, kind, n, icon, title, start, end, ref) ==
  [id |-> [day |-> day_index + 1, kind |-> kind, n |-> n], icon |-> icon, title |-> title,
   start |-> start, end |-> end, ref_spot_id |-> ref]

max_hour == 21

\* The for loop without min(..., max_hour): a spot ends when its stay ends
RECURSIVE PlaceSpotsUnclipped(_, _, _, _, _, _)
PlaceSpotsUnclipped(day_index, destination, spots_for_day, i, current_hour, activities) ==
  IF i > Len(spots_for_day) \/ current_hour >= max_hour
  THEN [activities |-> activities, current_hour |-> current_hour]
  ELSE LET s == spots_for_day[i]
           end_hour == current_hour + _estimate_duration_hours(s)
       IN  PlaceSpotsUnclipped(day_index, destination, spots_for_day, i + 1, end_hour,
             Append(activities,
               Activity(day_index, "spot", i, pick_icon(s.category), s.title.name,
                        current_hour * 60, end_hour * 60, s.id)))

\* The for loop that takes its lunch with the clock at 13:00 as well
RECURSIVE PlaceSpotsLunchUntilOne(_, _, _, _, _, _)
PlaceSpotsLunchUntilOne(day_index, destination, spots_for_day, i, current_hour, activities) ==
  IF i > Len(spots_for_day) \/ current_hour >= max_hour
  THEN [activities |-> activities, current_hour |-> current_hour]
  ELSE LET s == spots_for_day[i]
           duration == _estimate_duration_hours(s)
           lunch == 12 <= current_hour /\ current_hour <= 13
           start_hour == IF lunch THEN 13 ELSE current_hour
           end_hour == IF start_hour + duration < max_hour
                       THEN start_hour + duration ELSE max_hour
           with_lunch == IF lunch
                         THEN Append(activities,
                                Activity(day_index, "lunch", 0, "plate",
                                         <<destination, "lunch">>, 12 * 60, 13 * 60, NoSpot))
                         ELSE activities
       IN  PlaceSpotsLunchUntilOne(day_index, destination, spots_for_day, i + 1, end_hour,
             Append(with_lunch,
               Activity(day_index, "spot", i, pick_icon(s.category), s.title.name,
                        start_hour * 60, end_hour * 60, s.id)))

\* The for loop of _build_day_timeline over spots_for_day[i..], with the clock
\* at current_hour; yields the activities and the clock after the loop.
RECURSIVE PlaceSpots(_, _, _, _, _, _)
PlaceSpots(day_index, destination, spots_for_day, i, current_hour, activities) ==
  IF i > Len(spots_for_day) \/ current_hour >= max_hour
  THEN [activities |-> activities, current_hour |-> current_hour]
  ELSE LET s == spots_for_day[i]
           duration == _estimate_duration_hours(s)
           lunch == 12 <= current_hour /\ current_hour < 13
           start_hour == IF lunch THEN 13 ELSE current_hour
           end_hour == IF start_hour + duration < max_hour
                       THEN start_hour + duration ELSE max_hour
           with_lunch == IF lunch
                         THEN Append(activities,
                                Activity(day_index, "lunch", 0, "plate",
                                         <<destination, "lunch">>, 12 * 60, 13 * 60, NoSpot))
                         ELSE activities
       IN  PlaceSpots(day_index, destination, spots_for_day, i + 1, end_hour,
             Append(with_lunch,
               Activity(day_index, "spot", i, pick_icon(s.category), s.title.name,
                        start_hour * 60, end_hour * 60, s.id)))

\* The timeline that adds the evening to an empty day as to any other
TimelineWithEvening(day_index, destination, spots_for_day, budget) ==
  Append(IF spots_for_day = <<>>
         THEN << Activity(day_index, "free", 0, "relaxed", <<destination, "free">>,
                          10 * 60, 16 * 60, NoSpot) >>
         ELSE PlaceSpots(day_index, destination, spots_for_day, 1, 9, <<>>).activities,
         Activity(day_index, "dinner", 0, "noodles", <<destination, "night_market">>,
                  19 * 60, 20 * 60 + 30, NoSpot))

_build_day_timeline(day_index, destination, spots_for_day, budget) ==
  IF spots_for_day = <<>>
  THEN << Activity(day_index, "free", 0, "relaxed", <<destination, "free">>,
                   10 * 60, 16 * 60, NoSpot) >>
  ELSE LET placed == PlaceSpots(day_index, destination, spots_for_day, 1, 9, <<>>)
           rested == IF placed.current_hour < 18
                     THEN Append(placed.activities,
                            Activity(day_index, "rest", 0, "coffee", <<"", "coffee_and_stroll">>,
                                     placed.current_hour * 60, 18 * 60, NoSpot))
                     ELSE placed.activities
       IN  IF budget = "gao"
           THEN Append(rested, Activity(day_index, "dinner", 0, "wine",
                                 <<destination, "fine_dinner">>, 19 * 60, 21 * 60, NoSpot))
           ELSE Append(rested, Activity(day_index, "dinner", 0, "noodles",
                                 <<destination, "night_market">>, 19 * 60, 20 * 60 + 30, NoSpot))

\* --------------------------------------------------------- collaborators

\* fetch_featured_spots catches every exception of the search and of the LLM
\* and then returns these three spots.
FallbackSpots(destination) ==
  << [id |-> SpotId("fallback", 1),
      title |-> Text(<<destination, "hot_sights">>, {destination, "jingdian"}),
      rating |-> Rating(46), category |-> Text("jingdian", {"jingdian"})],
     [id |-> SpotId("fallback", 2),
      title |-> Text(<<destination, "food_street">>, {destination, "meishi", "jie"}),
      rating |-> Rating(44), category |-> Text("meishi", {"meishi"})],
     [id |-> SpotId("fallback", 3),
      title |-> Text(<<destination, "mall">>, {destination, "gouwu"}),
      rating |-> Rating(45), category |-> Text("gouwu", {"gouwu"})] >>

\* The entries of the "spots" array of an LLM summary: title, category and
\* rating are whatever its JSON holds (an absent rating is read as 4.5).
SpotsData(name, has, category, rating) ==
  [title |-> Text(<<"", name>>, has), rating |-> rating, category |-> category]

\* for idx, spot in enumerate(spots_data[:8], 1): id web_<idx>
WebSpots(spots_data) ==
  [i \in 1..(IF Len(spots_data) < 8 THEN Len(spots_data) ELSE 8) |->
     [id |-> SpotId("web", i), title |-> spots_data[i].title,
      rating |-> spots_data[i].rating, category |-> spots_data[i].category]]

\* What the search and the summarising LLM call of fetch_featured_spots can
\* give.  The search raises, returns an empty text or returns results.  The
\* LLM call:
\*   raise         the call raises
\*   no_content    the message has no content (None)
\*   no_brace      no {...} span in the text
\*   invalid_json  a {...} span that json.loads rejects
\*   not_a_list    an object whose "spots" is no list (null, a number)
\*   not_objects   a "spots" list whose entries are no objects
\*   object        an object; spots is its "spots" list, empty when the key is
\*                 absent
SearchResults == {"raise", "empty", "results"}

SummaryReply(kind, spots_data) == [kind |-> kind, spots |-> spots_data]

\* The try block returning an empty list where the source raises RuntimeError
fetch_in_try_empty(search, reply) ==
  IF search = "raise" \/ search = "empty" THEN [raised |-> TRUE, spots |-> <<>>]
  ELSE IF reply.kind \in {"raise", "no_content", "not_a_list", "not_objects"}
  THEN [raised |-> TRUE, spots |-> <<>>]
  ELSE [raised |-> FALSE,
        spots |-> WebSpots(IF reply.kind = "object" THEN reply.spots ELSE <<>>)]

\* The try block of fetch_featured_spots: the spots it returns, or raised.  A
\* reply without a JSON object is caught inside and read as an empty list; an
\* empty list of spots raises RuntimeError.
fetch_in_try(search, reply) ==
  IF search = "raise" \/ search = "empty" THEN [raised |-> TRUE, spots |-> <<>>]
  ELSE IF reply.kind \in {"raise", "no_content", "not_a_list", "not_objects"}
  THEN [raised |-> TRUE, spots |-> <<>>]
  ELSE LET spots_data == IF reply.kind = "object" THEN reply.spots ELSE <<>>
           spots == WebSpots(spots_data)
       IN  IF spots # <<>> THEN [raised |-> FALSE, spots |-> spots]
           ELSE [raised |-> TRUE, spots |-> <<>>]

\* except Exception: the three fallback spots
fetch_featured_spots(destination, search, reply) ==
  LET tried == fetch_in_try(search, reply) IN
  IF tried.raised THEN [raised |-> FALSE, spots |-> FallbackSpots(destination)]
  ELSE tried

\* LLM summaries the model draws from: five spots of mixed categories, one with
\* a null rating; and a list with a rating that is no number.
SummaryMixed ==
  << SpotsData("peak", {"shan"}, Text("ziran", {"ziran"}), Rating(48)),
     SpotsData("harbour", {}, Text("jingdian", {"jingdian"}), Rating(47)),
     SpotsData("museum", {"bowuguan"}, Text("wenhua", {"wenhua"}), RatingNone),
     SpotsData("dimsum", {}, Text("meishi", {"meishi"}), Rating(45)),
     SpotsData("market", {"jie"}, Text("gouwu", {"gouwu"}), Rating(45)) >>

SummaryBadRating ==
  << SpotsData("harbour", {}, Text("jingdian", {"jingdian"}), Rating(47)),
     SpotsData("dimsum", {}, Text("meishi", {"meishi"}), RatingText) >>

\* fetch_featured_spots(destination, interests): the spots of an LLM summary,
\* or the fallback spots when the search or the LLM fails or lists nothing.
FetchResults(destination) ==
  {FallbackSpots(destination), WebSpots(SummaryMixed), WebSpots(SummaryBadRating)}

\* search_city_hotspots(destination): ranked hotspots or its three fallback
\* entries; only the source of the list is modelled.
HotspotResults == {"web", "fallback"}

\* A DayPlan.  meta is absent from what the LLM is asked to return.
NoMeta == [present |-> FALSE, total_hours |-> 0, theme |-> <<>>, highlights |-> <<>>]

\* Replies of the LLM to a day-edit prompt for day current_day (0-based):
\*   raise          the call raises
\*   no_brace       no {...} span in the text
\*   invalid_json   a {...} span that json.loads rejects
\*   no_change      {"no_change": true}
\*   no_activities  an object without the key "activities"
\*   not_a_list     an object whose "activities" is no list ({"activities": null})
\*   replacement    the object asked for, with a list of activities
LLMPlan(current_day, is_list) ==
  [id |-> current_day + 1, day |-> current_day + 1, summary |-> "llm_text", meta |-> NoMeta,
   activities_is_list |-> is_list,
   activities |-> IF is_list
                  THEN << [id |-> [day |-> 0, kind |-> "act", n |-> 1], icon |-> "map",
                           title |-> <<"", "llm_activity">>, start |-> 8 * 60,
                           end |-> 12 * 60, ref_spot_id |-> NoSpot] >>
                  ELSE <<>>]

EditReplies(current_day) ==
  {[kind |-> k, parsed |-> LLMPlan(current_day, TRUE)] :
     k \in {"raise", "no_brace", "invalid_json", "no_change", "no_activities", "replacement"}}
  \cup {[kind |-> "not_a_list", parsed |-> LLMPlan(current_day, FALSE)]}

\* client.chat.completions.create for a reply text: it returns or raises
ChatResults == {"ok", "raise"}

\* ---------------------------------------------------------------- state

ThreadIds == {"thread-1"}

\* sessions: the session store of server.py, thread id -> TravelPlanState.
\* response: what copilotkit_chat_handler returned for the last request.
\* approvals, script: bookkeeping of two test conversations (see Approvals and
\* Script below); the program does not read them.
\* outage: the LLM and the search providers are unreachable.
\* call: a call of one of the itinerary helpers or of the fact extraction on
\* its own: the function, its arguments and, once it has returned, its result.
VARIABLES sessions, response, approvals, script, outage, call

vars == <<sessions, response, approvals, script, outage, call>>

\* messages holds the conversation history.  The nodes read only its last user
\* message, which is the message of the request being processed
\* (process_user_message appends it before it dispatches): the nodes take it as
\* a parameter.  Of the assistant's side the model keeps the number of messages
\* appended since the request began and which message came last:
\*   greeting, ask_missing   texts the LLM wrote
\*   welcome, day_message    node_initialize_planning, node_generate_single_day
\*   completion, transition  the approval branch
\*   media_report            the media-rating branch
\*   not_generated, kept, updated, need_detail, rephrase, problem
\*                           the day-edit branch
NoMessages == [appended |-> 0, last |-> "user"]

\* TravelPlanState as get_or_create_session builds it.  The keys it leaves out
\* are read with .get(key, default) everywhere and hold that default here.
NewSession ==
  [messages |-> NoMessages,
   destination |-> "", days |-> 0, people_count |-> 1, interests |-> {},
   budget |-> "zhong", itinerary |-> <<>>, featured_spots |-> <<>>,
   city_hotspots |-> "none", current_phase |-> "greeting", info_complete |-> FALSE,
   current_day_index |-> 0, day_approved |-> FALSE, sorted_spots |-> <<>>]

\* The result of a node: the state as the node left it (the state dict is
\* mutated in place, so what was assigned before a raise stays assigned) and
\* what was raised: "none", "collaborator" (an LLM call raised and nothing
\* caught it) or "data" (a value of a collaborator's reply made the agent's own
\* code raise).
Ok(state) == [state |-> state, raised |-> "none"]
Raise(state, what) == [state |-> state, raised |-> what]

\* messages.append({"role": "assistant", "content": ...})
AppendAssistant(state, content) ==
  [state EXCEPT !.messages = [appended |-> @.appended + 1, last |-> content]]

\* ---------------------------------------------------------------- nodes

\* node_greeting assigning the phase ahead of the LLM call
node_greeting_phase_first(state, chat) ==
  IF chat = "raise"
  THEN Raise([state EXCEPT !.current_phase = "gathering_info"], "collaborator")
  ELSE Ok([AppendAssistant(state, "greeting") EXCEPT !.current_phase = "gathering_info"])

node_greeting(state, chat) ==
  IF chat = "raise" THEN Raise(state, "collaborator")
  ELSE Ok([AppendAssistant(state, "greeting") EXCEPT !.current_phase = "gathering_info"])

node_gather_info(state, last_user_msg, chat) ==
  LET extracted == extract_info_from_message(state, last_user_msg) IN
  IF should_generate_plan(extracted)
  THEN Ok([extracted EXCEPT !.current_phase = "generating_day", !.info_complete = TRUE])
  ELSE IF chat = "raise" THEN Raise(extracted, "collaborator")
       ELSE Ok(AppendAssistant(extracted, "ask_missing"))

node_initialize_planning(state, featured, hotspots) ==
  LET fetched == [state EXCEPT !.featured_spots = featured, !.city_hotspots = hotspots] IN
  IF \E i \in 1..Len(featured) : RatingRaises(featured[i])
  THEN Raise(fetched, "data")
  ELSE Ok(AppendAssistant(
         [fetched EXCEPT
            !.sorted_spots = _apply_interest_ratio(
                               _score_and_sort_spots(featured, state.interests, state.budget),
                               state.interests),
            !.itinerary = <<>>,
            !.current_day_index = 0,
            !.day_approved = FALSE,
            !.current_phase = "generating_day"],
         "welcome"))

\* sorted_spots[start_idx:end_idx] with Python's clamping of the bounds
Slice(seq, start_idx, end_idx) ==
  LET hi == IF end_idx < Len(seq) THEN end_idx ELSE Len(seq)
  IN  IF start_idx >= hi THEN <<>> ELSE SubSeq(seq, start_idx + 1, hi)

\* The day's share without the last day's rest
day_spots_even(sorted_spots, current_day, total_days) ==
  LET spots_per_day == IF total_days > 0 THEN Len(sorted_spots) \div total_days ELSE 0
  IN  Slice(sorted_spots, current_day * spots_per_day, (current_day + 1) * spots_per_day)

\* The day's share of the pool: len // total_days spots, the last day takes
\* the rest.
day_spots(sorted_spots, current_day, total_days) ==
  LET spots_per_day == IF total_days > 0 THEN Len(sorted_spots) \div total_days ELSE 0
      start_idx == current_day * spots_per_day
      end_idx == IF current_day = total_days - 1
                 THEN Len(sorted_spots) ELSE start_idx + spots_per_day
  IN  Slice(sorted_spots, start_idx, end_idx)

day_plan(state) ==
  LET current_day == state.current_day_index
      spots == day_spots(state.sorted_spots, current_day, state.days)
      summary_info == _build_day_theme_summary(spots, state.destination)
  IN  [id |-> current_day + 1, day |-> current_day + 1, summary |-> "summary_info",
       meta |-> [present |-> TRUE, total_hours |-> summary_info.total_hours,
                 theme |-> summary_info.theme, highlights |-> summary_info.highlights],
       activities_is_list |-> TRUE,
       activities |-> _build_day_timeline(current_day, state.destination, spots,
                                          state.budget)]

\* plans[current_day] = day_plan when the day exists, plans.append(day_plan)
\* otherwise
put_plan(plans, current_day, plan) ==
  IF current_day < Len(plans)
  THEN [plans EXCEPT ![current_day + 1] = plan]
  ELSE Append(plans, plan)

node_generate_single_day(state) ==
  Ok(AppendAssistant(
       [state EXCEPT !.itinerary = put_plan(@, state.current_day_index, day_plan(state)),
                     !.current_phase = "refining_day",
                     !.day_approved = FALSE],
       "day_message"))

\* is_satisfied and len(last_user_msg) < 20
is_approval(last_user_msg) ==
  /\ \E keyword \in satisfaction_keywords : Contains(last_user_msg, keyword)
  /\ StrLen(last_user_msg) < 20

is_media_request(last_user_msg) ==
  \E keyword \in media_keywords : Contains(last_user_msg, keyword)

\* The completion test comparing the approved day's own index with the count
phase_after_approval_late(current_day, total_days) ==
  IF current_day >= total_days THEN "completed" ELSE "generating_day"

\* The completion test with = for >=
phase_after_approval_exact(current_day, total_days) ==
  IF current_day + 1 = total_days THEN "completed" ELSE "generating_day"

\* Every approval leading to another day
phase_after_approval_always_next(current_day, total_days) == "generating_day"

\* The phase after the approval of day current_day (0-based)
phase_after_approval(current_day, total_days) ==
  IF current_day + 1 >= total_days THEN "completed" ELSE "generating_day"

\* The approval branch: the day index moves on; completed when the new index
\* reaches the day count, generating_day otherwise.
approve_day(state) ==
  LET current_day == state.current_day_index
      phase == phase_after_approval(current_day, state.days)
  IN  AppendAssistant(
        [state EXCEPT !.day_approved = TRUE,
                      !.current_day_index = current_day + 1,
                      !.current_phase = phase],
        IF phase = "completed" THEN "completion" ELSE "transition")

\* current_day < len(plans): the day index names a plan of the itinerary
has_current_plan(plans, current_day) == current_day < Len(plans)

\* The media-rating branch: the lookups are wrapped in try/except and change
\* no state; iterating the day's activities raises when they are no list.
media_rating(state) ==
  LET current_day == state.current_day_index
      plans == state.itinerary
  IN  IF has_current_plan(plans, current_day) /\ ~plans[current_day + 1].activities_is_list
      THEN Raise(state, "data")
      ELSE Ok(AppendAssistant(state, "media_report"))

\* "activities" in parsed, for a reply that parsed to a JSON object
has_activities_key(reply) == reply.kind \in {"replacement", "not_a_list"}

\* The day-edit branch storing every replacement as the first day's plan
apply_edit_first_day(state, reply) ==
  IF reply.kind \in {"raise", "invalid_json"} THEN AppendAssistant(state, "problem")
  ELSE IF reply.kind = "no_brace" THEN AppendAssistant(state, "rephrase")
  ELSE IF reply.kind = "no_change" THEN AppendAssistant(state, "kept")
  ELSE IF has_activities_key(reply)
  THEN AppendAssistant([state EXCEPT !.itinerary[1] = reply.parsed], "updated")
  ELSE AppendAssistant(state, "need_detail")

\* The try block of the day-edit branch, from the reply of the LLM on: the
\* day's plan is replaced when the reply is a JSON object that does not ask for
\* no change and has the key "activities"; every other reply, and a raise
\* (of the call or of json.loads), only adds a message.
apply_edit(state, reply) ==
  IF reply.kind \in {"raise", "invalid_json"} THEN AppendAssistant(state, "problem")
  ELSE IF reply.kind = "no_brace" THEN AppendAssistant(state, "rephrase")
  ELSE IF reply.kind = "no_change" THEN AppendAssistant(state, "kept")
  ELSE IF has_activities_key(reply)
  THEN AppendAssistant(
         [state EXCEPT !.itinerary[state.current_day_index + 1] = reply.parsed],
         "updated")
  ELSE AppendAssistant(state, "need_detail")

\* The day-edit branch indexing plans[current_day] without the range test
edit_day_unguarded(state, reply) ==
  IF ~has_current_plan(state.itinerary, state.current_day_index)
  THEN Raise(state, "data")
  ELSE IF ~state.itinerary[state.current_day_index + 1].activities_is_list
  THEN Raise(state, "data")
  ELSE Ok(apply_edit(state, reply))

\* The day-edit branch: without a plan at the current day index it apologises;
\* building the prompt takes len() of the plan's activities, outside the try.
edit_day(state, reply) ==
  LET current_day == state.current_day_index
      plans == state.itinerary
  IN  IF ~has_current_plan(plans, current_day)
      THEN Ok(AppendAssistant(state, "not_generated"))
      ELSE IF ~plans[current_day + 1].activities_is_list THEN Raise(state, "data")
      ELSE Ok(apply_edit(state, reply))

\* node_refine_day reading the facts of the message as node_gather_info does
node_refine_day_extracting(state, last_user_msg, reply) ==
  LET extracted == extract_info_from_message(state, last_user_msg) IN
  IF is_approval(last_user_msg) THEN Ok(approve_day(extracted))
  ELSE IF is_media_request(last_user_msg) THEN media_rating(extracted)
  ELSE edit_day(extracted, reply)

node_refine_day(state, last_user_msg, reply) ==
  IF is_approval(last_user_msg) THEN Ok(approve_day(state))
  ELSE IF is_media_request(last_user_msg) THEN media_rating(state)
  ELSE edit_day(state, reply)

\* ------------------------------------------------ process_user_message

\* node_initialize_planning, then node_generate_single_day if it got through
initialize_and_generate(state, env) ==
  LET initialized == node_initialize_planning(state, env.featured, env.hotspots) IN
  IF initialized.raised # "none" THEN initialized
  ELSE IF initialized.state.current_phase = "generating_day"
       THEN node_generate_single_day(initialized.state)
       ELSE initialized

\* env: what the collaborators answer during the request (chat, featured,
\* hotspots, reply).
process_user_message(user_message, state0, env) ==
  LET state == [state0 EXCEPT !.messages = NoMessages]
      current_phase == state.current_phase
  IN  IF current_phase = "greeting" THEN node_greeting(state, env.chat)
      ELSE IF current_phase = "gathering_info"
      THEN LET gathered == node_gather_info(state, user_message, env.chat) IN
           IF gathered.raised = "none" /\ gathered.state.current_phase = "generating_day"
           THEN initialize_and_generate(gathered.state, env)
           ELSE gathered
      ELSE IF current_phase = "generating_day" THEN node_generate_single_day(state)
      ELSE IF current_phase = "refining_day"
      THEN LET refined == node_refine_day(state, user_message, env.reply) IN
           IF refined.raised = "none" /\ refined.state.current_phase = "generating_day"
           THEN node_generate_single_day(refined.state)
           ELSE refined
      ELSE IF current_phase = "completed" THEN node_refine_day(state, user_message, env.reply)
      ELSE IF current_phase = "generating_plan" THEN initialize_and_generate(state, env)
      ELSE IF current_phase = "refining" THEN node_refine_day(state, user_message, env.reply)
      ELSE Ok(state)

\* ------------------------------------------------------------ server.py

\* A store that hands out a new session for every request
get_or_create_session_every_time(store, thread_id) ==
  [t \in DOMAIN store \cup {thread_id} |->
     IF t = thread_id THEN NewSession ELSE store[t]]

get_or_create_session(store, thread_id) ==
  IF thread_id \in DOMAIN store THEN store
  ELSE [t \in DOMAIN store \cup {thread_id} |->
          IF t = thread_id THEN NewSession ELSE store[t]]

\* The handler's answer: 200 with the last assistant message (a default text
\* when the request appended none), 500 when the request raised.
Response(result) ==
  IF result.raised # "none" THEN [status |-> 500, content |-> "error", raised |-> result.raised]
  ELSE [status |-> 200,
        content |-> IF result.state.messages.last = "user"
                    THEN "cannot_reply" ELSE result.state.messages.last,
        raised |-> "none"]

\* copilotkit_chat_handler: the state object is the one the store holds, so
\* the store shows what a request assigned even when the request raised.
copilotkit_chat_handler(thread_id, user_message, env) ==
  LET store == get_or_create_session(sessions, thread_id)
      result == process_user_message(user_message, store[thread_id], env)
  IN  /\ sessions' = [store EXCEPT ![thread_id] = result.state]
      /\ response' = Response(result)

\* ---------------------------------------------------------- user input

Tian == T("tian", {"tian"}, 1)
Filler(n) == T("filler", {}, n)

\* "ni hao": hello
hello == << T("nihao", {}, 2) >>
\* "wo xiang qu Xianggang": I want to go to Hong Kong
SayDestination == << Filler(3), T("HongKong", {"HongKong"}, 2) >>
\* "<n> tian": n days
SayDays(n) == << Num(n), Tian >>
\* "2 ge ren": two people
SayPeople == << Num(2), T("ge", {}, 1), T("ren", {}, 1) >>
\* "meishi, jingdian": food, sightseeing
SayInterests == << T("meishi", {"meishi"}, 2), Filler(1), T("jingdian", {"jingdian"}, 2) >>
\* "zhongdeng yusuan": medium budget
SayBudget == << T("zhongdeng", {"zhong"}, 2), T("yusuan", {"yusuan"}, 2) >>
\* "manyi le": satisfied
SaySatisfied == << T("manyi", {"manyi"}, 2), Filler(1) >>
\* "meiti pingfen": media rating
SayMediaRating == << T("meitipingfen", {"meitipingfen"}, 4) >>
\* "xiawu gai qu bowuguan": go to the museum in the afternoon instead
SayEdit == << Filler(4), T("bowuguan", {"bowuguan"}, 3) >>
\* "1": a bare number
SayDigit == << Num(1) >>
\* "qu Beijing wan 2 tian, xihuan gouwu, yusuan gao": every fact in one message
SayAll == << Filler(1), T("Beijing", {"Beijing"}, 2), Filler(1), Num(2), Tian, Filler(3),
             T("gouwu", {"gouwu"}, 2), Filler(1), T("yusuan", {"yusuan"}, 2),
             T("gao", {"gao"}, 1) >>
\* a satisfied remark of 20 characters that goes on to ask for a change
SayLongRemark == << T("manyi", {"manyi"}, 2), Filler(18) >>

\* What the modelled user says while facts are gathered ...
Utterances ==
  {hello, SayDestination, SayPeople, SayInterests, SayBudget, SaySatisfied,
   SayMediaRating, SayEdit, SayDigit, SayAll, SayLongRemark}
  \cup {SayDays(n) : n \in 0..MaxDays}

\* ... and once days are planned: an approval, a rating request and requests
\* that are neither (a change, a long remark, a remark about the budget).
PlanningUtterances ==
  {SaySatisfied, SayMediaRating, SayEdit, SayLongRemark, SayBudget}

\* The conversation of test_journey_header_update.py.
Script == <<hello, SayDestination, SayDays(3), SayPeople, SayInterests, SayBudget>>

\* ------------------------------------------------------------- actions

PhaseOf(thread_id) ==
  IF thread_id \in DOMAIN sessions THEN sessions[thread_id].current_phase ELSE "greeting"

StateOf(thread_id) == get_or_create_session(sessions, thread_id)[thread_id]

Env(chat, featured, hotspots, reply) ==
  [chat |-> chat, featured |-> featured, hotspots |-> hotspots, reply |-> reply]

NoReply == [kind |-> "raise", parsed |-> LLMPlan(0, TRUE)]

\* What the collaborators can answer.  During an outage every call fails: the
\* LLM raises, fetch_featured_spots and search_city_hotspots return their
\* fallback lists.
ChatNow == IF outage THEN {"raise"} ELSE ChatResults

FetchNow(destination) ==
  IF outage THEN {FallbackSpots(destination)} ELSE FetchResults(destination)

HotspotsNow == IF outage THEN {"fallback"} ELSE HotspotResults

\* The LLM is asked for a day edit only on the day-edit branch and for a day
\* that has a plan whose activities are a list.
RepliesFor(state, user_message) ==
  IF /\ ~is_approval(user_message)
     /\ ~is_media_request(user_message)
     /\ has_current_plan(state.itinerary, state.current_day_index)
     /\ state.itinerary[state.current_day_index + 1].activities_is_list
  THEN IF outage THEN {NoReply} ELSE EditReplies(state.current_day_index)
  ELSE {NoReply}

\* approvals: how many approvals in a row the session has processed since it
\* stood in refining_day with day index 0 (-1: no such run is under way, or it
\* went past the day count).
\* script: how many utterances of Script, in order and from the first request
\* on, the thread has sent (-1: it sent something else).
Observe(thread_id, user_message) ==
  LET before == StateOf(thread_id)
      after == sessions'[thread_id]
  IN  /\ approvals' =
           IF approvals >= 0 /\ is_approval(user_message)
           THEN (IF approvals < before.days THEN approvals + 1 ELSE -1)
           ELSE IF after.current_phase = "refining_day" /\ after.current_day_index = 0
                THEN 0 ELSE -1
      /\ script' =
           IF script >= 0 /\ script < Len(Script) /\ user_message = Script[script + 1]
           THEN script + 1 ELSE -1
      /\ UNCHANGED <<outage, call>>

NoCall == [fn |-> "none", done |-> FALSE]

\* The server before its first request.
Idle ==
  /\ sessions = << >>
  /\ response = [status |-> 200, content |-> "none", raised |-> "none"]
  /\ approvals = -1
  /\ script = 0
  /\ outage = FALSE

Init ==
  /\ Idle
  /\ call = NoCall

\* The LLM and the search become unreachable and stay so.
Outage ==
  /\ ~outage
  /\ outage' = TRUE
  /\ UNCHANGED <<sessions, response, approvals, script, call>>

\* A request of thread_id with user_message while its session is in phase
\* greeting (the first request of a thread creates the session).
RequestInGreeting(thread_id, user_message) ==
  /\ PhaseOf(thread_id) = "greeting"
  /\ \E chat \in ChatNow :
       copilotkit_chat_handler(thread_id, user_message,
                               Env(chat, <<>>, "fallback", NoReply))
  /\ Observe(thread_id, user_message)

RequestInGatheringInfo(thread_id, user_message) ==
  /\ PhaseOf(thread_id) = "gathering_info"
  /\ \E chat \in ChatNow, hotspots \in HotspotsNow,
        featured \in FetchNow(
                       extract_destination(StateOf(thread_id), user_message).destination) :
       copilotkit_chat_handler(thread_id, user_message,
                               Env(chat, featured, hotspots, NoReply))
  /\ Observe(thread_id, user_message)

RequestInGeneratingDay(thread_id, user_message) ==
  /\ PhaseOf(thread_id) = "generating_day"
  /\ copilotkit_chat_handler(thread_id, user_message,
                             Env("ok", <<>>, "fallback", NoReply))
  /\ Observe(thread_id, user_message)

RequestInRefiningDay(thread_id, user_message) ==
  /\ PhaseOf(thread_id) = "refining_day"
  /\ \E reply \in RepliesFor(StateOf(thread_id), user_message) :
       copilotkit_chat_handler(thread_id, user_message,
                               Env("ok", <<>>, "fallback", reply))
  /\ Observe(thread_id, user_message)

RequestInCompleted(thread_id, user_message) ==
  /\ PhaseOf(thread_id) = "completed"
  /\ is_approval(user_message) => StateOf(thread_id).current_day_index < MaxDayIndex
  /\ \E reply \in RepliesFor(StateOf(thread_id), user_message) :
       copilotkit_chat_handler(thread_id, user_message,
                               Env("ok", <<>>, "fallback", reply))
  /\ Observe(thread_id, user_message)

ChatGreeting ==
  \E thread_id \in ThreadIds, user_message \in Utterances :
    RequestInGreeting(thread_id, user_message)

ChatGatheringInfo ==
  \E thread_id \in ThreadIds, user_message \in Utterances :
    RequestInGatheringInfo(thread_id, user_message)

ChatGeneratingDay ==
  \E thread_id \in ThreadIds, user_message \in PlanningUtterances :
    RequestInGeneratingDay(thread_id, user_message)

ChatRefiningDay ==
  \E thread_id \in ThreadIds, user_message \in PlanningUtterances :
    RequestInRefiningDay(thread_id, user_message)

ChatCompleted ==
  \E thread_id \in ThreadIds, user_message \in PlanningUtterances :
    RequestInCompleted(thread_id, user_message)

Next ==
  \/ Outage
  \/ ChatGreeting
  \/ ChatGatheringInfo
  \/ ChatGeneratingDay
  \/ ChatRefiningDay
  \/ ChatCompleted

Spec == Init /\ [][Next]_vars

\* ------------------------------------------- the helpers on their own
\* The scoring, the balancer, the day allocator, the timeline builder and the
\* fact extraction are functions of their arguments.  Each has a
\* specification of its own: the arguments are drawn from the sets below and
\* the one action applies the function.

\* Longest list of spots handed to the day allocator.
MaxBucketSpots == 6

\* The lists over S of at most n entries
RECURSIVE Lists(_, _)
Lists(S, n) ==
  IF n = 0 THEN {<<>>}
  ELSE LET shorter == Lists(S, n - 1)
       IN  shorter \cup {Append(l, x) : l \in {m \in shorter : Len(m) = n - 1}, x \in S}

\* Spots as fetch_featured_spots returns them: the five of SummaryMixed, and
\* one whose rating is a text.
SpotKinds == {WebSpots(SummaryMixed)[i] : i \in 1..Len(SummaryMixed)}

BadSpot == WebSpots(SummaryBadRating)[2]

\* id web_<idx> by position, as fetch_featured_spots numbers its list
Relabel(spots) == [i \in 1..Len(spots) |-> [spots[i] EXCEPT !.id = SpotId("web", i)]]

\* Twelve spots rated 4.7 ahead of the list: the base popularity of the
\* entries behind them has decayed far enough for equal scores to occur.
Pad == [i \in 1..12 |-> WebSpots(SummaryMixed)[2]]

\* Eight spots, the second rated 2.51 and the last 2.56: six places apart, the
\* decay of the base popularity makes up for the better rating.
PadClose ==
  [i \in 1..8 |-> [WebSpots(SummaryMixed)[2] EXCEPT
                     !.rating = IF i = 2 THEN RatingCents(251)
                                ELSE IF i = 8 THEN RatingCents(256) ELSE @]]

InterestSets == {{}, {"meishi"}, {"meishi", "jingdian"}, {"huwai"}}

\* One spot for each duration: 4, 3, 2 and 1 hours
DurationSpots == {WebSpots(SummaryMixed)[i] : i \in 1..4}

\* TripFacts values: a session with some facts set
FactStates ==
  {[NewSession EXCEPT !.destination = d, !.days = n, !.people_count = p,
                      !.interests = i, !.budget = b] :
     d \in {"", "HongKong"}, n \in 0..MaxDays, p \in {1, 2},
     i \in {{}, {"meishi"}, {"gouwu", "jingdian"}}, b \in Budgets}

\* _score_and_sort_spots as a call: float() of a rating raises ValueError for
\* a text that is no number, inside the loop and uncaught.
ScoreAndSort(spots, interests, budget) ==
  IF \E i \in 1..Len(spots) : RatingRaises(spots[i])
  THEN [raised |-> TRUE, value |-> <<>>]
  ELSE [raised |-> FALSE, value |-> _score_and_sort_spots(spots, interests, budget)]

Unchanged == UNCHANGED <<sessions, response, approvals, script, outage>>

ScoringInit ==
  /\ Idle
  /\ call \in {[fn |-> "_score_and_sort_spots", done |-> FALSE,
                 spots |-> Relabel(pad \o tail), interests |-> i, budget |-> b] :
                  pad \in {<<>>, Pad, PadClose},
                  tail \in Lists(SpotKinds \cup {BadSpot}, MaxSpots),
                  i \in {{}, {"meishi", "jingdian"}}, b \in Budgets}

ApplyScoring ==
  /\ call.fn = "_score_and_sort_spots" /\ ~call.done
  /\ call' = [fn |-> call.fn, done |-> TRUE, spots |-> call.spots,
               interests |-> call.interests, budget |-> call.budget,
               result |-> ScoreAndSort(call.spots, call.interests, call.budget)]
  /\ Unchanged

ScoringSpec == ScoringInit /\ [][ApplyScoring]_vars

BalancerInit ==
  /\ Idle
  /\ call \in {[fn |-> "_apply_interest_ratio", done |-> FALSE,
                 sorted_spots |-> l, interests |-> i] :
                  l \in Lists(SpotKinds, MaxSpots), i \in InterestSets}

ApplyBalancer ==
  /\ call.fn = "_apply_interest_ratio" /\ ~call.done
  /\ call' = [fn |-> call.fn, done |-> TRUE, sorted_spots |-> call.sorted_spots,
               interests |-> call.interests,
               result |-> _apply_interest_ratio(call.sorted_spots, call.interests)]
  /\ Unchanged

BalancerSpec == BalancerInit /\ [][ApplyBalancer]_vars

AllocatorInit ==
  /\ Idle
  /\ call \in {[fn |-> "_split_spots_by_day", done |-> FALSE,
                 sorted_spots |-> l, days |-> n] :
                  l \in Lists(DurationSpots, MaxBucketSpots), n \in -1..MaxDays}

ApplyAllocator ==
  /\ call.fn = "_split_spots_by_day" /\ ~call.done
  /\ call' = [fn |-> call.fn, done |-> TRUE, sorted_spots |-> call.sorted_spots,
               days |-> call.days,
               result |-> _split_spots_by_day(call.sorted_spots, call.days)]
  /\ Unchanged

AllocatorSpec == AllocatorInit /\ [][ApplyAllocator]_vars

TimelineInit ==
  /\ Idle
  /\ call \in {[fn |-> "_build_day_timeline", done |-> FALSE, day_index |-> d,
                 destination |-> "HongKong", spots_for_day |-> l, budget |-> b] :
                  d \in 0..(MaxDays - 1), l \in Lists(SpotKinds, MaxSpots), b \in Budgets}

ApplyTimeline ==
  /\ call.fn = "_build_day_timeline" /\ ~call.done
  /\ call' = [fn |-> call.fn, done |-> TRUE, day_index |-> call.day_index,
               destination |-> call.destination, spots_for_day |-> call.spots_for_day,
               budget |-> call.budget,
               result |-> _build_day_timeline(call.day_index, call.destination,
                                              call.spots_for_day, call.budget)]
  /\ Unchanged

TimelineSpec == TimelineInit /\ [][ApplyTimeline]_vars

\* The extraction is applied twice in a row: result, then again on the result.
ExtractionInit ==
  /\ Idle
  /\ call \in {[fn |-> "extract_info_from_message", done |-> FALSE,
                 state |-> f, message |-> u] : f \in FactStates, u \in Utterances}

ApplyExtraction ==
  /\ call.fn = "extract_info_from_message" /\ ~call.done
  /\ call' = [fn |-> call.fn, done |-> TRUE, state |-> call.state,
               message |-> call.message,
               result |-> extract_info_from_message(call.state, call.message),
               again |-> extract_info_from_message(
                           extract_info_from_message(call.state, call.message),
                           call.message)]
  /\ Unchanged

ExtractionSpec == ExtractionInit /\ [][ApplyExtraction]_vars

\* Four spots ahead of the list: pools of up to MaxSpots + 4 spots
PoolPad == SubSeq(WebSpots(SummaryMixed), 1, 4)

\* A session at the start of the day-by-day generation: the pool is stored,
\* no day is planned yet.
PlanningStates ==
  {[NewSession EXCEPT !.destination = "HongKong", !.days = n, !.budget = b,
                      !.interests = {"jingdian"}, !.info_complete = TRUE,
                      !.sorted_spots = Relabel(pad \o tail),
                      !.current_phase = "generating_day"] :
     n \in 1..MaxDays, b \in Budgets, pad \in {<<>>, PoolPad},
     tail \in Lists(DurationSpots, MaxSpots)}

\* The days are generated and approved in turn, no edit in between.  buckets
\* keeps the spots node_generate_single_day handed to the timeline and to the
\* summary, day by day.
GenerationInit ==
  /\ Idle
  /\ call \in {[fn |-> "node_generate_single_day", done |-> FALSE, state |-> st,
                 buckets |-> <<>>] : st \in PlanningStates}

GenerateDay ==
  /\ call.fn = "node_generate_single_day" /\ ~call.done
  /\ call.state.current_phase = "generating_day"
  /\ call' = [call EXCEPT
                !.state = node_generate_single_day(call.state).state,
                !.buckets = Append(@, day_spots(call.state.sorted_spots,
                                                call.state.current_day_index,
                                                call.state.days))]
  /\ Unchanged

ApproveDay ==
  /\ call.fn = "node_generate_single_day" /\ ~call.done
  /\ call.state.current_phase = "refining_day"
  /\ call' = [call EXCEPT !.state = approve_day(call.state),
                          !.done = approve_day(call.state).current_phase = "completed"]
  /\ Unchanged

GenerationSpec == GenerationInit /\ [][GenerateDay \/ ApproveDay]_vars

\* Longest "spots" list of an LLM summary
MaxSummary == 9

\* LLM summaries of 0 to MaxSummary entries
Summaries ==
  {[i \in 1..n |-> base[((i - 1) % Len(base)) + 1]] :
     n \in 0..MaxSummary, base \in {SummaryMixed, SummaryBadRating}}

SummaryReplies ==
  {SummaryReply(k, <<>>) :
     k \in {"raise", "no_content", "no_brace", "invalid_json", "not_a_list", "not_objects"}}
  \cup {SummaryReply("object", l) : l \in Summaries}

FetchInit ==
  /\ Idle
  /\ call \in {[fn |-> "fetch_featured_spots", done |-> FALSE, destination |-> d,
                 search |-> s, reply |-> r] :
                  d \in {"HongKong", "Beijing"}, s \in SearchResults, r \in SummaryReplies}

ApplyFetch ==
  /\ call.fn = "fetch_featured_spots" /\ ~call.done
  /\ call' = [fn |-> call.fn, done |-> TRUE, destination |-> call.destination,
               search |-> call.search, reply |-> call.reply,
               result |-> fetch_featured_spots(call.destination, call.search, call.reply)]
  /\ Unchanged

FetchSpec == FetchInit /\ [][ApplyFetch]_vars

\* ------------------------------------------------------ legacy phases
\* No transition of the agent sets the phases generating_plan and refining;
\* process_user_message still dispatches on them for sessions stored by an
\* older version.  Such sessions are drawn here.

\* st after days 0..k have been generated, each but the last approved
RECURSIVE Planned(_, _)
Planned(st, k) ==
  IF k = 0 THEN node_generate_single_day(st).state
  ELSE node_generate_single_day(approve_day(Planned(st, k - 1))).state

\* Sessions with days 0..k planned, k below the day count, for the pools of
\* fetch_featured_spots
PlannedStates ==
  UNION {{Planned([NewSession EXCEPT !.destination = "HongKong", !.days = n, !.budget = b,
                                      !.interests = {"jingdian"}, !.info_complete = TRUE,
                                      !.featured_spots = pool, !.sorted_spots = pool,
                                      !.current_phase = "generating_day"], k) :
            k \in 0..(n - 1)} :
         n \in 1..MaxDays, b \in Budgets,
         pool \in {FallbackSpots("HongKong"), WebSpots(SummaryMixed)}}

\* What the LLM can answer to a day edit of st
LegacyReplies(st, user_message) ==
  IF is_approval(user_message) \/ is_media_request(user_message) THEN {NoReply}
  ELSE EditReplies(st.current_day_index)

\* A request to a session in phase refining is processed, and the same request
\* to the same session in phase refining_day (modern); a request to a
\* session in phase generating_plan is processed.
LegacyInit ==
  /\ Idle
  /\ call \in
       UNION {{[fn |-> "process_user_message", done |-> FALSE, phase |-> "refining",
                state |-> [st EXCEPT !.current_phase = "refining"], message |-> u,
                env |-> Env("ok", <<>>, "fallback", reply)] :
                 reply \in LegacyReplies(st, u)} :
              st \in PlannedStates, u \in PlanningUtterances}
       \cup
       {[fn |-> "process_user_message", done |-> FALSE, phase |-> "generating_plan",
         state |-> [st EXCEPT !.current_phase = "generating_plan"], message |-> u,
         env |-> Env("ok", featured, hotspots, NoReply)] :
          st \in PlannedStates \cup {f \in FactStates : should_generate_plan(f)},
          u \in PlanningUtterances,
          featured \in FetchResults("HongKong"), hotspots \in HotspotResults}

ApplyLegacy ==
  /\ call.fn = "process_user_message" /\ ~call.done
  /\ call' =
       IF call.phase = "refining"
       THEN [fn |-> call.fn, done |-> TRUE, phase |-> call.phase, state |-> call.state,
             message |-> call.message, env |-> call.env,
             result |-> process_user_message(call.message, call.state, call.env),
             modern |-> process_user_message(
                          call.message,
                          [call.state EXCEPT !.current_phase = "refining_day"], call.env)]
       ELSE [fn |-> call.fn, done |-> TRUE, phase |-> call.phase, state |-> call.state,
             message |-> call.message, env |-> call.env,
             result |-> process_user_message(call.message, call.state, call.env)]
  /\ Unchanged

LegacySpec == LegacyInit /\ [][ApplyLegacy]_vars

\* ------------------------------------------------ requests in flight
\* copilotkit_chat_handler is a coroutine on the one event loop that
\* uvicorn.run starts: it runs until it awaits or returns, and only then can
\* another request's coroutine run.

\* Turns explored per conversation
MaxTurns == 3

\* Connections the client holds: two requests can be in flight at once
RequestIds == {1, 2}

\* What the requests say
TurnUtterances == {hello, SayAll, SaySatisfied, SayEdit}

\* The await points of copilotkit_chat_handler, with process_user_message
\* awaited as well
handler_awaits_process == {"request.body", "process_user_message"}

\* The await points of copilotkit_chat_handler: await request.body().
\* get_or_create_session and process_user_message are plain calls.
handler_awaits == {"request.body"}

NoRequest == [pos |-> "idle", message |-> <<>>, seen |-> NewSession, overlapped |-> FALSE]

\* requests: where each request's coroutine stands (idle, awaiting_body,
\* awaiting_process) with the state it loaded; turns: for every turn that ran
\* to its end, in that order, the state it loaded and the state it stored.
ServerInit ==
  /\ Idle
  /\ call = [fn |-> "copilotkit_chat_handler", done |-> FALSE,
             requests |-> [r \in RequestIds |-> NoRequest], turns |-> <<>>]

\* A request arrives: the handler starts and runs to await request.body()
Receive(r, user_message) ==
  /\ call.fn = "copilotkit_chat_handler"
  /\ call.requests[r].pos = "idle"
  /\ Len(call.turns) + Cardinality({q \in RequestIds : call.requests[q].pos # "idle"})
       < MaxTurns
  /\ call' = [call EXCEPT !.requests[r] =
                [pos |-> "awaiting_body", message |-> user_message, seen |-> NewSession,
                 overlapped |-> \E q \in RequestIds : call.requests[q].pos # "idle"]]
  /\ UNCHANGED <<sessions, response, approvals, script, outage>>

\* The event loop resumes the coroutine of request r, which runs to its next
\* await or to its return.  After the body it loads the session, processes the
\* message and stores the state.
Resume(r, thread_id) ==
  LET request == call.requests[r]
      loaded == IF request.pos = "awaiting_process" THEN request.seen ELSE StateOf(thread_id)
  IN  /\ call.fn = "copilotkit_chat_handler"
      /\ request.pos \in {"awaiting_body", "awaiting_process"}
      /\ IF request.pos = "awaiting_body" /\ "process_user_message" \in handler_awaits
         THEN /\ call' = [call EXCEPT !.requests[r].pos = "awaiting_process",
                                      !.requests[r].seen = loaded]
              /\ sessions' = get_or_create_session(sessions, thread_id)
              /\ UNCHANGED response
         ELSE \E chat \in ChatResults, featured \in FetchResults("Beijing"),
                 reply \in RepliesFor(loaded, request.message) :
                LET result == process_user_message(request.message, loaded,
                                                   Env(chat, featured, "fallback", reply))
                IN  /\ sessions' = [get_or_create_session(sessions, thread_id)
                                      EXCEPT ![thread_id] = result.state]
                    /\ response' = Response(result)
                    /\ call' = [call EXCEPT
                                  !.requests[r] = NoRequest,
                                  !.turns = Append(@, [seen |-> loaded,
                                                       stored |-> result.state,
                                                       overlapped |-> request.overlapped])]
      /\ UNCHANGED <<approvals, script, outage>>

ServerNext ==
  \/ \E r \in RequestIds, user_message \in TurnUtterances : Receive(r, user_message)
  \/ \E r \in RequestIds, thread_id \in ThreadIds : Resume(r, thread_id)

ServerSpec == ServerInit /\ [][ServerNext]_vars

\* ------------------------------------------------- several sessions

\* The thread ids of two browser tabs
SessionIds == {"thread-1", "thread-2"}

\* call: the request the handler processed last (its thread id, its message,
\* what the collaborators answered) and the number of requests so far.
SessionsInit ==
  /\ Idle
  /\ call = [fn |-> "sessions", done |-> FALSE, count |-> 0, thread_id |-> "none",
             user_message |-> <<>>, env |-> Env("ok", <<>>, "fallback", NoReply)]

\* One request of thread_id, from the handler's start to its return
SessionRequest(thread_id, user_message) ==
  /\ call.fn = "sessions"
  /\ call.count < MaxTurns
  /\ \E chat \in ChatResults, featured \in FetchResults("Beijing"),
        reply \in RepliesFor(StateOf(thread_id), user_message) :
       LET env == Env(chat, featured, "fallback", reply)
       IN  /\ copilotkit_chat_handler(thread_id, user_message, env)
           /\ call' = [call EXCEPT !.done = TRUE, !.count = @ + 1,
                                   !.thread_id = thread_id,
                                   !.user_message = user_message, !.env = env]
  /\ UNCHANGED <<approvals, script, outage>>

SessionsNext ==
  \E thread_id \in SessionIds, user_message \in TurnUtterances :
    SessionRequest(thread_id, user_message)

SessionsSpec == SessionsInit /\ [][SessionsNext]_vars

\* ------------------------------------------------------------ properties

Sessions == {sessions[t] : t \in DOMAIN sessions}

\* C1: from refining_day with day index 0 and N >= 1 days, after k < N
\* approvals in a row the phase is refining_day with day index k and k+1 day
\* plans; after N approvals the phase is completed with exactly N day plans.
ApprovalLoop ==
  \A s \in Sessions :
    approvals >= 0 =>
      /\ approvals <= s.days
      /\ approvals < s.days =>
           /\ s.current_phase = "refining_day"
           /\ s.current_day_index = approvals
           /\ Len(s.itinerary) = approvals + 1
      /\ approvals = s.days =>
           /\ s.current_phase = "completed"
           /\ Len(s.itinerary) = s.days

\* Three days, three approvals in a row, the last of them just processed
ApprovalLoopDone ==
  /\ approvals = 3
  /\ response.content = "completion"
  /\ \E s \in Sessions : s.days = 3 /\ s.current_phase = "completed"

\* C2: after the six utterances of the scripted conversation (hello, the
\* city, 3 days, 2 people, food and sightseeing, medium budget) sent to a fresh
\* session, the facts are the city, 3 days, 2 travellers, interests with food
\* and sightseeing, medium budget; the phase is generating_day or refining_day
\* with day index 0 and the itinerary holds exactly one day plan.
ScriptedConversation ==
  \A s \in Sessions :
    script = Len(Script) =>
      /\ s.destination = "HongKong"
      /\ s.days = 3
      /\ s.people_count = 2
      /\ {"meishi", "jingdian"} \subseteq s.interests
      /\ s.budget = "zhong"
      /\ s.current_phase \in {"generating_day", "refining_day"}
      /\ s.current_day_index = 0
      /\ Len(s.itinerary) = 1

CompletedStays ==
  [][\A t \in DOMAIN sessions :
       sessions[t].current_phase = "completed" =>
         sessions'[t].current_phase = "completed"]_vars

\* An approval was processed in phase completed: the day index went past the
\* day count
CompletedApprovedAgain ==
  \E s \in Sessions :
    /\ s.current_phase = "completed"
    /\ s.current_day_index > s.days
    /\ response.content = "completion"

\* C5: in phase completed, an edit request that the LLM answers with a
\* well-formed replacement of the day (a JSON object with an activities list)
\* replaces a day plan of the itinerary by that replacement.
WellFormedReplacement(state) ==
  [kind |-> "replacement", parsed |-> LLMPlan(state.current_day_index, TRUE)]

CompletedEditReplaces ==
  \A s \in Sessions :
    s.current_phase = "completed" =>
      LET reply == WellFormedReplacement(s)
          result == process_user_message(SayEdit, s,
                                         Env("ok", <<>>, "fallback", reply))
      IN  \E i \in 1..Len(result.state.itinerary) :
            /\ result.state.itinerary[i] = reply.parsed
            /\ s.itinerary[i] # reply.parsed

\* C6: a request processed in phase greeting always ends in phase
\* gathering_info, whatever the utterance is.
GreetingMovesOn ==
  [][\A t \in ThreadIds :
       (PhaseOf(t) = "greeting" /\ outage' = outage) =>
         /\ t \in DOMAIN sessions'
         /\ sessions'[t].current_phase = "gathering_info"]_vars

\* C7: the loss of the LLM and the search never blocks the itinerary's
\* progress: when every collaborator call fails, a session that is not yet
\* completed is never stuck, some utterance of the user still moves it on (it
\* changes a fact, the phase, the day index or the itinerary), so that a user
\* who supplies the facts and then approves still reaches phase completed.
FailingEnv(state, user_message) ==
  Env("raise", FallbackSpots(extract_destination(state, user_message).destination),
      "fallback", NoReply)

Progress(state) ==
  <<state.destination, state.days, state.interests, state.current_phase,
    state.current_day_index, state.itinerary>>

OutageNeverBlocks ==
  \A t \in ThreadIds :
    (outage /\ PhaseOf(t) # "completed") =>
      \E u \in Utterances :
        Progress(process_user_message(u, StateOf(t), FailingEnv(StateOf(t), u)).state)
          # Progress(StateOf(t))

\* C8: when the reply of the LLM to an edit request is not the expected JSON
\* shape (no brace-delimited span, invalid JSON, an object without an
\* activities list) or the call fails, the itinerary, the phase and the day
\* index are what they were before the request and one assistant message is
\* appended.
MalformedReplies(state) ==
  {reply \in EditReplies(state.current_day_index) :
     reply.kind \in {"raise", "no_brace", "invalid_json", "no_activities", "not_a_list"}}

MalformedEditKeepsPlan ==
  \A s \in Sessions :
    ( /\ s.current_phase \in {"refining_day", "completed"}
      /\ has_current_plan(s.itinerary, s.current_day_index)
      /\ s.itinerary[s.current_day_index + 1].activities_is_list ) =>
      \A reply \in MalformedReplies(s) :
        LET result == process_user_message(SayEdit, s,
                                           Env("ok", <<>>, "fallback", reply))
        IN  /\ result.raised = "none"
            /\ result.state.itinerary = s.itinerary
            /\ result.state.current_phase = s.current_phase
            /\ result.state.current_day_index = s.current_day_index
            /\ result.state.messages.appended = 1

\* C9: when the refinement runs with a day index out of the itinerary's range
\* (index >= number of day plans), an edit request changes neither the
\* itinerary nor the phase nor the day index, appends an apology and raises
\* nothing.
EditRequests ==
  {u \in PlanningUtterances : ~is_approval(u) /\ ~is_media_request(u)}

OutOfRangeEditIsNoOp ==
  \A s \in Sessions :
    ( /\ s.current_phase \in {"refining_day", "completed"}
      /\ s.current_day_index >= Len(s.itinerary) ) =>
      \A u \in EditRequests, reply \in EditReplies(s.current_day_index) :
        LET result == process_user_message(u, s, Env("ok", <<>>, "fallback", reply))
        IN  /\ result.raised = "none"
            /\ result.state.itinerary = s.itinerary
            /\ result.state.current_phase = s.current_phase
            /\ result.state.current_day_index = s.current_day_index
            /\ result.state.messages = [appended |-> 1, last |-> "not_generated"]

\* An edit request was answered with the apology while the day index was out
\* of range
OutOfRangeEditAnswered ==
  /\ response = [status |-> 200, content |-> "not_generated", raised |-> "none"]
  /\ \E s \in Sessions : s.current_day_index >= Len(s.itinerary)

\* C10: when a collaborator call raises during a request and the agent does
\* not handle it, the handler answers with the failure reply; the session stays
\* in the store with the phase, the day index and the itinerary it had before
\* the request.
CollaboratorRaiseKeepsSession ==
  [][\A t \in ThreadIds :
       (response'.raised = "collaborator" /\ outage' = outage) =>
         /\ response'.status = 500
         /\ t \in DOMAIN sessions'
         /\ sessions'[t].current_phase = StateOf(t).current_phase
         /\ sessions'[t].current_day_index = StateOf(t).current_day_index
         /\ sessions'[t].itinerary = StateOf(t).itinerary]_vars

\* The LLM call of node_gather_info raised after a destination was extracted
CollaboratorRaised ==
  /\ response.raised = "collaborator"
  /\ \E s \in Sessions : s.current_phase = "gathering_info" /\ s.destination # ""

Done(fn) == call.fn = fn /\ call.done

Count(seq, x) == Cardinality({i \in 1..Len(seq) : seq[i] = x})

\* a and b hold the same spots, each as often in b as in a
SameSpots(a, b) ==
  /\ Len(a) = Len(b)
  /\ \A i \in 1..Len(a) : Count(a, a[i]) = Count(b, a[i])

\* C11: the balancer returns a list with the length and the multiset of spots
\* of its input: it reorders, it neither drops nor duplicates a spot.
BalancerKeepsSpots ==
  Done("_apply_interest_ratio") => SameSpots(call.sorted_spots, call.result)

\* A list with a spot twice came back in another order
BalancerReordered ==
  /\ Done("_apply_interest_ratio")
  /\ call.result # call.sorted_spots
  /\ \E i, j \in 1..Len(call.sorted_spots) : i < j /\ call.sorted_spots[i] = call.sorted_spots[j]

\* C12: in the balancer's output, in every prefix whose length times
\* max_interest_ratio is at least 1, the share of interest spots is at most
\* max_interest_ratio, unless the spots that match no interest have run out
\* (the prefix holds them all).
InterestIn(spots, interests) ==
  Cardinality({i \in 1..Len(spots) : is_interest_spot(spots[i], interests)})

BalancerRatioBound ==
  Done("_apply_interest_ratio") =>
    \A n \in 1..Len(call.result) :
      LET prefix == SubSeq(call.result, 1, n)
          others_left == (n - InterestIn(prefix, call.interests))
                           < (Len(call.result) - InterestIn(call.result, call.interests))
      IN  (n * max_interest_ratio >= 10 /\ others_left) =>
            10 * InterestIn(prefix, call.interests) <= max_interest_ratio * n

\* the spots of the buckets, day after day
RECURSIVE Flatten(_)
Flatten(buckets) ==
  IF buckets = <<>> THEN <<>> ELSE Head(buckets) \o Flatten(Tail(buckets))

\* C13: for day_count n >= 1 the allocator returns exactly n buckets and every
\* input spot is in exactly one of them: none is dropped, none is in two
\* buckets, the sizes add up to the input's length.
AllocatorKeepsSpots ==
  (Done("_split_spots_by_day") /\ call.days >= 1) =>
    /\ Len(call.result) = call.days
    /\ SameSpots(call.sorted_spots, Flatten(call.result))

\* Six spots went to three days, each day got some
AllocatorFilledDays ==
  /\ Done("_split_spots_by_day")
  /\ call.days = 3
  /\ Len(call.sorted_spots) = 6
  /\ \A d \in 1..3 : call.result[d] # <<>>

\* C14: after the allocator has placed a list of spots (stays of 1 to 4
\* hours), no two buckets' hours differ by more than 4; so for 3 days and the
\* stays 4, 4, 4, 4, 1, 1.
AllocatorBalanced ==
  (Done("_split_spots_by_day") /\ call.days >= 1) =>
    \A a, b \in 1..Len(call.result) :
      SumDurations(call.result[a]) - SumDurations(call.result[b]) <= 4

\* 3 days and the stays 4, 4, 4, 4, 1, 1: the days get 8, 5 and 5 hours
AllocatorExample ==
  /\ Done("_split_spots_by_day")
  /\ call.days = 3
  /\ [i \in 1..Len(call.sorted_spots) |-> _estimate_duration_hours(call.sorted_spots[i])]
       = <<4, 4, 4, 4, 1, 1>>
  /\ [d \in 1..3 |-> SumDurations(call.result[d])] = <<8, 5, 5>>

TimelineWithinDay ==
  Done("_build_day_timeline") =>
    \A i \in 1..Len(call.result) :
      LET activity == call.result[i] IN
      /\ activity.start >= 9 * 60
      /\ activity.end <= 21 * 60
      /\ activity.id.kind = "spot" => activity.start < activity.end

\* The last spot's stay was cut at 21:00
TimelineCut ==
  /\ Done("_build_day_timeline")
  /\ \E i \in 1..Len(call.result) :
       /\ call.result[i].id.kind = "spot"
       /\ call.result[i].start = 20 * 60
       /\ call.result[i].end = 21 * 60
       /\ _estimate_duration_hours(call.spots_for_day[call.result[i].id.n]) > 1

\* C17: for an empty bucket the timeline is exactly one activity, the free
\* time from 10:00 to 16:00, whatever the day index and the budget: no lunch,
\* no rest, no dinner.
EmptyDayTimeline ==
  (Done("_build_day_timeline") /\ call.spots_for_day = <<>>) =>
    /\ Len(call.result) = 1
    /\ call.result[1].id.kind = "free"
    /\ call.result[1].start = 10 * 60
    /\ call.result[1].end = 16 * 60

\* The timeline of an empty third day on a high budget
EmptyDayBuilt ==
  /\ Done("_build_day_timeline")
  /\ call.spots_for_day = <<>>
  /\ call.day_index = 2
  /\ call.budget = "gao"

\* C18: the scoring's output is sorted by descending score, spots of equal
\* score keep the order they had in the input, and the output is a function
\* of (spots, interests, budget): every input spot once, with its score.
ScoringSortedStable ==
  (Done("_score_and_sort_spots") /\ ~call.result.raised) =>
    LET out == call.result.value IN
    /\ Len(out) = Len(call.spots)
    /\ \A p \in 1..Len(out) :
         /\ out[p].id.n \in 1..Len(call.spots)
         /\ out[p].title = call.spots[out[p].id.n].title
         /\ out[p].category = call.spots[out[p].id.n].category
    /\ \A p, q \in 1..Len(out) :
         p < q => \/ DoubleCmp(out[p]._score, out[q]._score) = 1
                  \/ out[p]._score = out[q]._score /\ out[p].id.n < out[q].id.n

\* Two spots of the output have the same score
ScoringTie ==
  /\ Done("_score_and_sort_spots")
  /\ ~call.result.raised
  /\ \E p, q \in 1..Len(call.result.value) :
       p < q /\ call.result.value[p]._score = call.result.value[q]._score

\* C19: a spot whose rating is absent or no number is scored with the rating
\* 4.5; the scoring returns an entry for every input spot and does not fail.
NoNumber(spot) == spot.rating.kind \in {"none", "text"}

ScoringDefaultsRating ==
  (Done("_score_and_sort_spots") /\ \E i \in 1..Len(call.spots) : NoNumber(call.spots[i])) =>
    /\ ~call.result.raised
    /\ Len(call.result.value) = Len(call.spots)
    /\ \A p \in 1..Len(call.result.value) :
         LET entry == call.result.value[p] IN
         NoNumber(entry) =>
           entry._score = score(Rating(45), InterestBonus(entry, call.interests),
                                entry.id.n - 1, call.budget)

\* C20: the extraction is idempotent: extracting from the same utterance
\* again changes nothing more; an utterance that sets no new fact leaves the
\* facts as they are.
ExtractionIdempotent ==
  Done("extract_info_from_message") => call.again = call.result

\* An utterance set every fact, and the second extraction kept them
ExtractionSetFacts ==
  /\ Done("extract_info_from_message")
  /\ call.message = SayAll
  /\ call.state.destination = ""
  /\ call.result.destination = "Beijing"
  /\ call.result.days = 2
  /\ call.again = call.result

\* C21: the facts never decrease: after an utterance a destination that was
\* set is still set, a day count above 0 is still above 0, a traveler count
\* above 0 is still above 0 and every interest that was present is still
\* present.
FactsNeverDecrease ==
  Done("extract_info_from_message") =>
    /\ call.state.destination # "" => call.result.destination # ""
    /\ call.state.days > 0 => call.result.days > 0
    /\ call.state.people_count > 0 => call.result.people_count > 0
    /\ call.state.interests \subseteq call.result.interests

\* The hours of the bucket's spots that the plan's activities refer to
PlacedHours(plan, bucket) ==
  SumDurations(SelectSeq(bucket,
    LAMBDA spot : \E k \in 1..Len(plan.activities) :
                    /\ plan.activities[k].id.kind = "spot"
                    /\ plan.activities[k].ref_spot_id = spot.id))

\* C22: for every day bucket that holds spots, the total_hours of the day's
\* summary is the sum of the estimated durations of the spots the timeline
\* turned into activities for that bucket (lunch, rest and dinner aside).
TotalHoursMatchTimeline ==
  call.fn = "node_generate_single_day" =>
    \A d \in 1..Len(call.buckets) :
      call.buckets[d] # <<>> =>
        call.state.itinerary[d].meta.total_hours
          = PlacedHours(call.state.itinerary[d], call.buckets[d])

\* C29: with a pool of P spots and N >= 1 days, day i < N-1 gets the pool
\* entries [i*floor(P/N), (i+1)*floor(P/N)) and day N-1 every entry from
\* (N-1)*floor(P/N) on; over the days 0..N-1 every pool spot is in exactly one
\* bucket and the pool's order is kept.
EvenSplit ==
  call.fn = "node_generate_single_day" =>
    LET pool == call.state.sorted_spots
        N == call.state.days
        share == Len(pool) \div N
    IN  /\ \A d \in 1..Len(call.buckets) :
             call.buckets[d] = [k \in 1..((IF d = N THEN Len(pool) ELSE d * share)
                                             - (d - 1) * share)
                                  |-> pool[(d - 1) * share + k]]
        /\ call.done => /\ Len(call.buckets) = N
                        /\ Flatten(call.buckets) = pool

\* Three days were generated from a pool of eight spots: 2, 2 and 4 spots
EvenSplitOfEight ==
  /\ call.fn = "node_generate_single_day" /\ call.done
  /\ call.state.days = 3
  /\ Len(call.state.sorted_spots) = 8
  /\ [d \in 1..3 |-> Len(call.buckets[d])] = <<2, 2, 4>>

\* C23: fetch_featured_spots never raises and always returns a non-empty
\* list of spots with pairwise distinct ids: at most 8 spots, those of the
\* summary, when the search and the summary succeed, and the 3 fallback spots
\* on any failure (search error, empty search result, LLM error, unparseable
\* or empty LLM output).
FetchSucceeds ==
  /\ call.search = "results"
  /\ call.reply.kind = "object"
  /\ call.reply.spots # <<>>

FetchAlwaysReturnsSpots ==
  Done("fetch_featured_spots") =>
    LET spots == call.result.spots IN
    /\ ~call.result.raised
    /\ spots # <<>>
    /\ \A i, j \in 1..Len(spots) : i # j => spots[i].id # spots[j].id
    /\ FetchSucceeds =>
         /\ Len(spots) <= 8
         /\ Len(spots) <= Len(call.reply.spots)
         /\ \A i \in 1..Len(spots) : spots[i].title = call.reply.spots[i].title
    /\ ~FetchSucceeds => spots = FallbackSpots(call.destination)

\* A summary of nine spots came back as eight
FetchCutToEight ==
  /\ Done("fetch_featured_spots")
  /\ FetchSucceeds
  /\ Len(call.reply.spots) = 9
  /\ Len(call.result.spots) = 8

\* C24: the processing of one turn of a session, from loading the session
\* state to storing the updated state, is never interleaved with that of
\* another request to the same session: each turn sees the state that the
\* turn completed before it left (the first the new session), and no request
\* is suspended between its load and its store.
TurnsNotInterleaved ==
  call.fn = "copilotkit_chat_handler" =>
    /\ \A r \in RequestIds : call.requests[r].pos # "awaiting_process"
    /\ \A k \in 1..Len(call.turns) :
         call.turns[k].seen = IF k = 1 THEN NewSession ELSE call.turns[k - 1].stored

\* Two requests were in flight together and both turns ran to their end, the
\* second on the state the first had changed
TurnsOverlapped ==
  /\ call.fn = "copilotkit_chat_handler"
  /\ Len(call.turns) >= 2
  /\ call.turns[2].overlapped
  /\ call.turns[1].stored # NewSession
  /\ call.turns[2].seen = call.turns[1].stored

\* The phase of the day-by-day flow that a legacy phase stands for
ModernPhase(phase) ==
  IF phase = "refining" THEN "refining_day"
  ELSE IF phase = "generating_plan" THEN "generating_day" ELSE phase

\* C25: the legacy phases route to the single-day logic: a turn processed in
\* phase refining leaves the state (phase, day index, itinerary) that the
\* same turn processed in refining_day leaves, and a turn processed in phase
\* generating_plan leaves the state of an initialization followed by the
\* generation of day 0 (phase refining_day, day index 0, one DayPlan).
LegacyRoutesToSingleDay ==
  Done("process_user_message") =>
    /\ call.phase = "refining" =>
         /\ call.result.raised = call.modern.raised
         /\ ModernPhase(call.result.state.current_phase)
              = call.modern.state.current_phase
         /\ call.result.state.current_day_index = call.modern.state.current_day_index
         /\ call.result.state.itinerary = call.modern.state.itinerary
    /\ (call.phase = "generating_plan" /\ call.result.raised = "none") =>
         /\ call.result.state.current_phase = "refining_day"
         /\ call.result.state.current_day_index = 0
         /\ Len(call.result.state.itinerary) = 1

\* C26: in every state reached from a fresh session the itinerary is never
\* longer than the day count; in phase refining_day with day index i, i is
\* below the day count and the itinerary holds exactly i+1 DayPlans; in phase
\* completed it holds exactly as many DayPlans as the trip has days.
ItineraryGrowsWithDays ==
  \A s \in Sessions :
    /\ Len(s.itinerary) <= s.days
    /\ s.current_phase = "refining_day" =>
         /\ s.current_day_index < s.days
         /\ Len(s.itinerary) = s.current_day_index + 1
    /\ s.current_phase = "completed" => Len(s.itinerary) = s.days

\* A trip of three days is completed, its three days planned in order
ItineraryOfThree ==
  \E s \in Sessions :
    /\ s.days = 3
    /\ s.current_phase = "completed"
    /\ Len(s.itinerary) = 3
    /\ \A d \in 1..3 : s.itinerary[d].id = d

\* The request just answered was a day edit of a session in refining_day and
\* the edit was applied
EditApplied(thread_id) ==
  /\ thread_id \in DOMAIN sessions
  /\ sessions[thread_id].current_phase = "refining_day"
  /\ response'.content = "updated"

\* C27: an edit applied in refining_day(i) replaces only the DayPlan at index
\* i: every other DayPlan, the length of the itinerary, the day index and the
\* phase are as they were before the turn.
EditReplacesOnlyCurrentDay ==
  [][\A t \in ThreadIds :
       EditApplied(t) =>
         LET before == sessions[t]
             after == sessions'[t]
         IN  /\ after.current_phase = "refining_day"
             /\ after.current_day_index = before.current_day_index
             /\ Len(after.itinerary) = Len(before.itinerary)
             /\ \A d \in 1..Len(before.itinerary) :
                  d # before.current_day_index + 1 => after.itinerary[d] = before.itinerary[d]
    ]_vars

\* The second day was edited: it holds the LLM's plan, the first day the
\* generated one
SecondDayEdited ==
  \E s \in Sessions :
    /\ s.current_phase = "refining_day"
    /\ s.current_day_index = 1
    /\ s.messages.last = "updated"
    /\ Len(s.itinerary) = 2
    /\ s.itinerary[2].summary = "llm_text"
    /\ s.itinerary[1].summary = "summary_info"

\* C28: an applied edit of day i changes only the activities and the summary
\* of the DayPlan at index i: its id, its day label and its metadata (total
\* hours, theme, highlights) are after the edit what they were before,
\* whatever the LLM replied.
EditKeepsDayIdentity ==
  [][\A t \in ThreadIds :
       EditApplied(t) =>
         LET i == sessions[t].current_day_index + 1
             before == sessions[t].itinerary[i]
             after == sessions'[t].itinerary[i]
         IN  /\ after.id = before.id
             /\ after.day = before.day
             /\ after.meta = before.meta
    ]_vars

\* C30: when adding the next spot to the minimum-hours day would bring that
\* day above 9 hours and some other day has under 7 hours, the allocator
\* assigns the spot to the least-loaded of those other days, not to the
\* minimum-hours day.
OverflowGoesToOtherDay ==
  (Done("_split_spots_by_day") /\ call.days >= 1) =>
    LET trace == PlaceTrace(call.sorted_spots, 1, [d \in 1..call.days |-> 0], <<>>) IN
    \A k \in 1..Len(trace) :
      LET day_hours == trace[k].day_hours
          minimum == FirstEmptiest(1..call.days, day_hours)
          others == {d \in 1..call.days : d # minimum /\ day_hours[d] < 7}
      IN  (day_hours[minimum] + trace[k].dur > 9 /\ others # {}) =>
            /\ trace[k].idx \in others
            /\ \A d \in others : day_hours[trace[k].idx] <= day_hours[d]

\* the spots the replayed loop put on day d, in the order it placed them
RECURSIVE TraceBucket(_, _)
TraceBucket(trace, d) ==
  IF trace = <<>> THEN <<>>
  ELSE IF Head(trace).idx = d
       THEN <<Head(trace).spot>> \o TraceBucket(Tail(trace), d)
       ELSE TraceBucket(Tail(trace), d)

\* C31: the allocator places a spot on a day whose hours thereby exceed 9
\* only if, at that moment, adding the spot to any day would bring that day
\* above 9 hours (the replayed placements are those of the returned buckets).
OverflowOnlyWithoutRelief ==
  (Done("_split_spots_by_day") /\ call.days >= 1) =>
    LET trace == PlaceTrace(call.sorted_spots, 1, [d \in 1..call.days |-> 0], <<>>) IN
    /\ \A d \in 1..call.days : TraceBucket(trace, d) = call.result[d]
    /\ \A k \in 1..Len(trace) :
         LET day_hours == trace[k].day_hours IN
         day_hours[trace[k].idx] + trace[k].dur > 9 =>
           \A d \in 1..call.days : day_hours[d] + trace[k].dur > 9

\* Two days, five spots: the last one took a day past 9 hours
OverflowHappened ==
  /\ Done("_split_spots_by_day")
  /\ call.days = 2
  /\ Len(call.sorted_spots) = 5
  /\ \E d \in 1..2 : SumDurations(call.result[d]) > 9

\* the clock when the activity at position i is about to be placed: the end
\* of the last spot before it, 09:00 when there is none
RECURSIVE ClockBefore(_, _)
ClockBefore(activities, i) ==
  IF i <= 1 THEN 9 * 60
  ELSE IF activities[i - 1].id.kind = "spot" THEN activities[i - 1].end
       ELSE ClockBefore(activities, i - 1)

IsLunch(activity) ==
  activity.id.kind = "lunch" /\ activity.start = 12 * 60 /\ activity.end = 13 * 60

\* C32: a lunch activity 12:00-13:00 is emitted exactly when a spot is about
\* to be placed while the clock is within [12:00, 13:00): a spot is preceded
\* by the lunch if and only if the clock was in that hour, a lunch is always
\* followed by a spot, there is at most one lunch per day, and the spot that
\* follows it starts at 13:00.
LunchWhenClockAtNoon ==
  Done("_build_day_timeline") =>
    LET result == call.result
        at_noon(i) == 12 * 60 <= ClockBefore(result, i) /\ ClockBefore(result, i) < 13 * 60
        after_lunch(i) == i > 1 /\ result[i - 1].id.kind = "lunch"
    IN  /\ \A i \in 1..Len(result) :
             result[i].id.kind = "spot" =>
               /\ at_noon(i) <=> after_lunch(i)
               /\ after_lunch(i) => result[i].start = 13 * 60
        /\ \A i \in 1..Len(result) :
             result[i].id.kind = "lunch" =>
               /\ IsLunch(result[i])
               /\ i < Len(result) /\ result[i + 1].id.kind = "spot"
        /\ Cardinality({i \in 1..Len(result) : result[i].id.kind = "lunch"}) <= 1

\* A 3-hour spot, the lunch, and a spot from 13:00
LunchTaken ==
  /\ Done("_build_day_timeline")
  /\ Len(call.spots_for_day) >= 2
  /\ _estimate_duration_hours(call.spots_for_day[1]) = 3
  /\ IsLunch(call.result[2])
  /\ call.result[3].id.kind = "spot" /\ call.result[3].start = 13 * 60

\* the TripFacts and the scored pool of a state
FactsAndPool(state) ==
  <<state.destination, state.days, state.people_count, state.interests, state.budget,
    state.sorted_spots>>

\* C33: after initialization no turn processed in generating_day,
\* refining_day or completed changes the stored scored pool or any TripFact
\* (destination, days, travelers, interests, budget), whatever the utterance
\* contains (every utterance, the LLM unreachable) and whatever the LLM
\* answers to a request for a change (every reply, the utterance carrying no
\* fact or all of them: the day-edit branch reads the utterance only into its
\* prompt).
PlanningKeepsFactsAndPool ==
  \A thread_id \in DOMAIN sessions :
    LET state == sessions[thread_id]
        kept(user_message, reply) ==
          FactsAndPool(process_user_message(user_message, state,
                                            Env("ok", <<>>, "fallback", reply)).state)
            = FactsAndPool(state)
    IN  state.current_phase \in {"generating_day", "refining_day", "completed"} =>
          /\ \A user_message \in Utterances : kept(user_message, NoReply)
          /\ \A user_message \in {SayEdit, SayAll},
                reply \in EditReplies(state.current_day_index) : kept(user_message, reply)

\* A turn of the day-edit branch was processed in refining_day on a session
\* planned from "Beijing, 2 days, shopping, high budget"
PlanningTurnProcessed ==
  \E thread_id \in DOMAIN sessions :
    LET state == sessions[thread_id] IN
    /\ state.current_phase = "refining_day"
    /\ state.messages.last \in {"updated", "kept", "need_detail", "rephrase", "problem"}
    /\ state.budget = "gao" /\ state.destination = "Beijing" /\ state.days = 2
    /\ state.sorted_spots # <<>>

\* C34: in every state reachable from a fresh session the current day index
\* is between 0 and the day count inclusive, however many approvals are sent,
\* those sent after the phase is completed included.
DayIndexWithinDays ==
  \A thread_id \in DOMAIN sessions :
    /\ 0 <= sessions[thread_id].current_day_index
    /\ sessions[thread_id].current_day_index <= sessions[thread_id].days

\* the activities of the itinerary whose source is the spot: (day, position)
ActivitiesOf(itinerary, spot) ==
  {<<d, k>> \in (1..Len(itinerary)) \X (1..(2 * (MaxSpots + 4))) :
     /\ k <= Len(itinerary[d].activities)
     /\ itinerary[d].activities[k].id.kind = "spot"
     /\ itinerary[d].activities[k].ref_spot_id = spot.id}

\* C35: once all days have been generated and approved, no edit applied,
\* every spot of the scored pool is the source of exactly one activity in
\* exactly one day plan.
NoPoolSpotDropped ==
  (call.fn = "node_generate_single_day" /\ call.done) =>
    \A i \in 1..Len(call.state.sorted_spots) :
      Cardinality(ActivitiesOf(call.state.itinerary, call.state.sorted_spots[i])) = 1

\* C36: within a day's timeline no two activities overlap: each activity
\* starts at or after the end of the activity emitted before it (spots,
\* lunch, rest and dinner included).
TimelineWithoutOverlap ==
  Done("_build_day_timeline") =>
    \A i \in 2..Len(call.result) : call.result[i].start >= call.result[i - 1].end

\* the ids of the spots in the order of the list
Ranking(spots) == [p \in 1..Len(spots) |-> spots[p].id]

\* C37: the budget tier has no influence on the ranking: for the same spots
\* and interests the scoring returns the same ordering of spots for budget
\* low, medium and high.
RankingWhateverBudget ==
  (Done("_score_and_sort_spots") /\ ~call.result.raised) =>
    \A budget \in Budgets :
      Ranking(_score_and_sort_spots(call.spots, call.interests, budget))
        = Ranking(call.result.value)

\* C38: sessions are isolated: a turn processed for one session id leaves the
\* state stored for every other session id unchanged, and a session's state is
\* created once, on the first message of its id, and reused for every later
\* message with that id (the turn runs on the state stored for the id).
SessionsIsolated ==
  [][call'.fn = "sessions" =>
       LET thread_id == call'.thread_id
           loaded == IF thread_id \in DOMAIN sessions THEN sessions[thread_id] ELSE NewSession
       IN  /\ DOMAIN sessions' = DOMAIN sessions \cup {thread_id}
           /\ \A other \in DOMAIN sessions \ {thread_id} : sessions'[other] = sessions[other]
           /\ sessions'[thread_id]
                = process_user_message(call'.user_message, loaded, call'.env).state]_vars

\* Two sessions are stored, both past their first message and in different
\* states; the last request was for one of them
TwoSessionsAdvanced ==
  /\ call.fn = "sessions"
  /\ DOMAIN sessions = SessionIds
  /\ call.thread_id = "thread-1"
  /\ sessions["thread-1"].current_phase = "refining_day"
  /\ sessions["thread-2"].current_phase = "gathering_info"

====
